---- MODULE Spec2Model ----
(***************************************************************************)
(* Model of the TokenRouter Node SDK transport layer:                      *)
(*   - the non-streaming request executor (constructor, response           *)
(*     interceptor, handleResponseError, request with its 5xx retry),      *)
(*   - the SSE stream decoders (parseSSEStream of the responses client and *)
(*     the inline loops of the chat-completions client),                   *)
(*   - the responses namespace (create, get, cancel) and its derived       *)
(*     output_text.                                                        *)
(* Text is a sequence of one-character strings.                            *)
(***************************************************************************)
EXTENDS Integers, Sequences, FiniteSets, TLC

VARIABLES
    \* ---- request executor (TokenRouter.request) ----
    optMaxRetries,  \* options.maxRetries as passed to the constructor ("none" = absent)
    maxRetries,     \* this.maxRetries
    pc,             \* position of the request() call
    retryCount,     \* the retryCount argument of the running attempt
    sent,           \* number of HTTP requests issued by the call
    answers,        \* the status that came back for each issued request, in
                    \* order (0 when no response came back)
    lastAnswer,     \* what came back for the latest request
    waits,          \* the backoff delays (seconds) slept so far, in order
    result,         \* what request() returned or threw
    \* ---- stream decoder (async generator) ----
    site,           \* which streaming call site runs
    stream,         \* the lines the server has written on the response body
    pos,            \* number of body bytes handed out by reader.read() so far
    buffer,         \* the generator's local `buffer`
    decoder,        \* bytes of an incomplete character held by the TextDecoder
    pending,        \* lines of the current chunk not yet visited by the for loop
    gen,            \* state of the generator
    yielded,        \* events delivered to the consumer, in order
    readerHeld,     \* the body reader is locked by the generator
    releases,       \* number of reader.releaseLock() calls
    readsAfterRelease, \* reader.read() calls issued after releaseLock()
    exitPath,       \* how the generator finished ("none" while it has not)
    raised,         \* the error the generator raised to the consumer
    fetches,        \* number of HTTP requests the generator has sent with fetch
    pulledAfterEnd, \* the consumer called next() after the generator finished
    handed,         \* the lines split off the buffer and given to the for loop, in order
    responseStatus, \* response.status of the response fetch resolved with (0 while none)
    \* ---- responses namespace (create, get, cancel) ----
    call,           \* the responses method invoked ("none" before the call)
    served,         \* the body request() resolved with
    outcome,        \* what the method returned or threw
    \* ---- chat client (TokenRouterClient): create and the key cache ----
    apiKey,         \* this.apiKey
    baseUrl,        \* this.baseUrl
    optHeaders,     \* options.headers as passed to the constructor
    envProviderKeys, \* the providers that have an API key in the environment
    trPublicKeyPem, \* this.trPublicKeyPem (<<>> while unset)
    keyLog,         \* the keys successful key fetches have returned, in order
    calls,          \* the calls made on the client, each with its position
    wire,           \* every HTTP request sent: call, url, attempt and headers
    \* ---- streaming calls running concurrently on one client ----
    streams,        \* each call's generator: body received, position, events
    locals          \* the `buffer` and `decoder` storage of the decode loops

reqVars == <<optMaxRetries, maxRetries, pc, retryCount, sent, answers, lastAnswer, waits,
            result>>
sseVars == <<site, stream, pos, buffer, decoder, pending, gen, yielded,
             readerHeld, releases, readsAfterRelease, exitPath, raised,
             fetches, pulledAfterEnd, handed, responseStatus>>
respVars == <<call, served, outcome>>
clientVars == <<apiKey, baseUrl, optHeaders, envProviderKeys, trPublicKeyPem, keyLog, calls, wire>>
streamVars == <<streams, locals>>
vars == <<reqVars, sseVars, respVars, clientVars, streamVars>>

\* ------------------------------------------------------------------ bounds

\* largest options.maxRetries value tried
MaxRetriesOpt == 2

\* ------------------------------------------------------------------ text helpers

RECURSIVE Flatten(_)
Flatten(ss) == IF ss = <<>> THEN <<>> ELSE Head(ss) \o Flatten(Tail(ss))

\* String.prototype.startsWith
StartsWith(s, p) == Len(s) >= Len(p) /\ SubSeq(s, 1, Len(p)) = p

\* String.prototype.includes
Includes(s, sub) ==
    \E i \in 1..(Len(s) - Len(sub) + 1) : SubSeq(s, i, i + Len(sub) - 1) = sub

LowerOf(c) ==
    CASE c = "Q" -> "q" [] c = "U" -> "u" [] c = "O" -> "o" [] c = "T" -> "t"
      [] c = "A" -> "a" [] c = "F" -> "f" [] c = "N" -> "n" [] c = "D" -> "d"
      [] c = "E" -> "e" [] c = "S" -> "s" [] c = "R" -> "r" [] OTHER -> c

\* String.prototype.toLowerCase
ToLowerCase(s) == [i \in 1..Len(s) |-> LowerOf(s[i])]

RECURSIVE StripLeft(_, _)
StripLeft(s, ws) == IF s # <<>> /\ Head(s) \in ws THEN StripLeft(Tail(s), ws) ELSE s

Digit(n) == CASE n = 0 -> "0" [] n = 1 -> "1" [] n = 2 -> "2" [] n = 3 -> "3"
              [] n = 4 -> "4" [] n = 5 -> "5" [] n = 6 -> "6" [] n = 7 -> "7"
              [] n = 8 -> "8" [] OTHER -> "9"

DigitChars == {"0", "1", "2", "3", "4", "5", "6", "7", "8", "9"}

DigitValue(c) == CHOOSE n \in 0..9 : Digit(n) = c

RECURSIVE NumberValue(_)
NumberValue(s) ==
    IF s = <<>> THEN 0
    ELSE 10 * NumberValue(SubSeq(s, 1, Len(s) - 1)) + DigitValue(s[Len(s)])

\* a number, or NaN
Num(n) == [nan |-> FALSE, n |-> n]
NaN == [nan |-> TRUE, n |-> 0]

\* parseInt(s): leading white space is skipped, then the longest run of
\* decimal digits is the value; NaN when there is none
ParseInt(s) ==
    LET t == StripLeft(s, {" ", "\t", "\r", "\n"})
        stops == {i \in 1..Len(t) : t[i] \notin DigitChars}
        run == IF stops = {} THEN Len(t)
               ELSE (CHOOSE i \in stops : \A j \in stops : i <= j) - 1
    IN  IF run = 0 THEN NaN ELSE Num(NumberValue(SubSeq(t, 1, run)))

\* ------------------------------------------------------------------ HTTP answers

\* options.maxRetries || 3
DefaultMaxRetries == 3

\* a value of a JSON field: absent, a string, a non-string truthy value (an object
\* or array), or a non-string falsy value (0, null, false)
Absent == [t |-> "absent", s |-> <<>>]
StrVal(s) == [t |-> "str", s |-> s]
ObjVal == [t |-> "obj", s |-> <<>>]
ZeroVal == [t |-> "zero", s |-> <<>>]

\* JavaScript truthiness of such a value
Truthy(v) == v.t = "obj" \/ (v.t = "str" /\ v.s # <<>>)

\* a || b
OrElse(a, b) == IF Truthy(a) THEN a ELSE b

DetailValues ==
    {Absent, StrVal(<<"Q", "u", "o", "t", "a">>), StrVal(<<"D", "e", "n", "i", "e", "d">>), StrVal(<<>>), ObjVal, ZeroVal}
ErrorValues ==
    {Absent, StrVal(<<"Q", "U", "O", "T", "A">>), StrVal(<<"D", "e", "n", "i", "e", "d">>), ObjVal}

\* response.data: a parsed JSON object, or the raw text when the body is not JSON
Bodies ==
    [json : {TRUE}, detail : DetailValues, error : ErrorValues]
      \cup {[json |-> FALSE, detail |-> Absent, error |-> Absent]}

Statuses == {200, 400, 401, 403, 404, 429, 500, 502}

StatusPhrase(status) ==
    CASE status = 200 -> <<"O", "K">>
      [] status = 400 -> <<"B", "a", "d", " ", "R", "e", "q", "u", "e", "s", "t">>
      [] status = 401 -> <<"U", "n", "a", "u", "t", "h", "o", "r", "i", "z", "e", "d">>
      [] status = 403 -> <<"F", "o", "r", "b", "i", "d", "d", "e", "n">>
      [] status = 404 -> <<"N", "o", "t", " ", "F", "o", "u", "n", "d">>
      [] status = 429 -> <<"T", "o", "o", " ", "M", "a", "n", "y", " ", "R", "e", "q", "u", "e", "s", "t", "s">>
      [] status = 500 -> <<"I", "n", "t", "e", "r", "n", "a", "l", " ", "S", "e", "r", "v", "e", "r", " ", "E", "r", "r", "o", "r">>
      [] OTHER -> <<"B", "a", "d", " ", "G", "a", "t", "e", "w", "a", "y">>

\* response.statusText: the status phrase, or "" when the protocol carries none
StatusTexts(status) == {StatusPhrase(status), <<>>}

\* response.headers['retry-after']: absent, delay seconds, or an HTTP date
\* with a 429; absent or delay seconds with a 502
RetryAfterValues(status) ==
    CASE status = 429 ->
           {Absent, StrVal(<<"0">>), StrVal(<<"3", "0">>), StrVal(<<"W", "e", "d">>)}
      [] status = 502 -> {Absent, StrVal(<<"3", "0">>)}
      [] OTHER -> {Absent}

\* no response came back: the connection failed, or the axios timeout fired
NoResponse == [kind |-> "noResponse"]
TimedOut == [kind |-> "timeout"]
Responses ==
    UNION {[kind : {"response"}, status : {st}, statusText : StatusTexts(st), data : Bodies,
            retryAfter : RetryAfterValues(st)]
           : st \in Statuses}
Answers == Responses \cup {NoResponse, TimedOut}

\* axios validateStatus default: 2xx resolves, anything else rejects
IsOk(status) == status >= 200 /\ status < 300

\* ------------------------------------------------------------------ errors

\* new <kind>(message, statusCode, response, headers)
TokenRouterErrorOf(kind, message, statusCode, response) ==
    [kind |-> kind, message |-> message, statusCode |-> <<statusCode>>,
     response |-> <<response>>, retryAfter |-> <<>>]

\* mutant: the truthiness test is made on the parsed number, so 0 is lost
RetryAfterOfNonZero(header) ==
    IF Truthy(header) /\ ParseInt(header.s) # Num(0) THEN <<ParseInt(header.s)>> ELSE <<>>

\* retryAfter ? parseInt(retryAfter) : undefined
RetryAfterOf(header) == IF Truthy(header) THEN <<ParseInt(header.s)>> ELSE <<>>

\* new RateLimitError(message, statusCode, response, headers, retryAfter)
RateLimitErrorOf(message, statusCode, response, retryAfter) ==
    [kind |-> "RateLimitError", message |-> message, statusCode |-> <<statusCode>>,
     response |-> <<response>>, retryAfter |-> retryAfter]

\* new <kind>(message): statusCode and response stay undefined
TokenRouterErrorMsg(kind) ==
    [kind |-> kind, message |-> Absent, statusCode |-> <<>>, response |-> <<>>,
     retryAfter |-> <<>>]

\* message.toLowerCase is not a function
TypeErrorValue ==
    [kind |-> "TypeError", message |-> Absent, statusCode |-> <<>>, response |-> <<>>,
     retryAfter |-> <<>>]

\* ------------------------------------------------------------------ request executor

Quota == <<"q", "u", "o", "t", "a">>

\* mutant: the error field is looked at before the detail field
ExtractMessageErrorFirst(response) ==
    OrElse(response.data.error,
           OrElse(response.data.detail, StrVal(response.statusText)))

\* const message = data?.detail || data?.error || response.statusText
ExtractMessage(response) ==
    OrElse(response.data.detail,
           OrElse(response.data.error, StrVal(response.statusText)))

\* mutant: the switch has no final throw, so for a status below 500 that has no
\* case handleResponseError returns, the interceptor resolves with undefined
\* and `response.data` in request() is a TypeError
handleResponseErrorFallsThrough(response) ==
    LET status == response.status
        data == response.data
        message == ExtractMessage(response)
    IN  CASE status = 401 ->
               TokenRouterErrorOf("AuthenticationError", message, status, data)
          [] status = 429 ->
               RateLimitErrorOf(message, status, data, RetryAfterOf(response.retryAfter))
          [] status = 400 ->
               TokenRouterErrorOf("InvalidRequestError", message, status, data)
          [] status = 403 ->
               IF message.t # "str"
               THEN TypeErrorValue
               ELSE IF Includes(ToLowerCase(message.s), Quota)
                    THEN TokenRouterErrorOf("QuotaExceededError", message, status, data)
                    ELSE TokenRouterErrorOf("AuthenticationError", message, status, data)
          [] OTHER ->
               IF status >= 500
               THEN TokenRouterErrorOf("APIStatusError", message, status, data)
               ELSE TypeErrorValue

\* handleResponseError: the error it throws for a non-2xx response
handleResponseError(response) ==
    LET status == response.status
        data == response.data
        message == ExtractMessage(response)
    IN  CASE status = 401 ->
               TokenRouterErrorOf("AuthenticationError", message, status, data)
          [] status = 429 ->
               RateLimitErrorOf(message, status, data, RetryAfterOf(response.retryAfter))
          [] status = 400 ->
               TokenRouterErrorOf("InvalidRequestError", message, status, data)
          [] status = 403 ->
               IF message.t # "str"
               THEN TypeErrorValue
               ELSE IF Includes(ToLowerCase(message.s), Quota)
                    THEN TokenRouterErrorOf("QuotaExceededError", message, status, data)
                    ELSE TokenRouterErrorOf("AuthenticationError", message, status, data)
          [] OTHER ->
               IF status >= 500
               THEN TokenRouterErrorOf("APIStatusError", message, status, data)
               ELSE TokenRouterErrorOf("TokenRouterError", message, status, data)

\* mutant: the two no-response branches of the interceptor swapped
InterceptErrorSwapped(answer) ==
    IF answer.kind = "response"
    THEN handleResponseError(answer)
    ELSE TokenRouterErrorMsg("TokenRouterError")

\* the response interceptor's rejection handler (setupInterceptors), for an
\* error that carries a response or, without one, a request (a failed
\* connection and an elapsed timeout alike)
InterceptError(answer) ==
    IF answer.kind = "response"
    THEN handleResponseError(answer)
    ELSE TokenRouterErrorMsg("APIConnectionError")

\* the constructor's this.maxRetries = options.maxRetries || 3
ConstructMaxRetries(opt) ==
    IF opt = <<>> \/ opt = <<0>> THEN DefaultMaxRetries ELSE opt[1]

\* mutant: the status test written > 500
ShouldRetryAbove500(error, count) ==
    /\ count < maxRetries
    /\ error.kind = "APIStatusError"
    /\ error.statusCode # <<>>
    /\ error.statusCode[1] > 500

\* mutant: the instanceof test dropped and every status error retried
ShouldRetryAnyStatus(error, count) ==
    /\ count < maxRetries
    /\ error.statusCode # <<>>
    /\ error.statusCode[1] >= 400

\* the catch clause of request(): retry or rethrow
ShouldRetry(error, count) ==
    /\ count < maxRetries
    /\ error.kind = "APIStatusError"
    /\ error.statusCode # <<>>
    /\ error.statusCode[1] # 0
    /\ error.statusCode[1] >= 500

\* Math.pow(2, retryCount) seconds
Backoff(count) == 2 ^ count

Returned(data) == [kind |-> "returned", data |-> data]
Thrown(error) == [kind |-> "thrown", error |-> error]
NoResult == [kind |-> "none"]

\* this.client.request(...): the request goes out, or axios fails while setting
\* it up (an error with neither response nor request) and nothing is sent
IssueRequest ==
    \/ /\ sent' = sent + 1
       /\ pc' = "inflight"
       /\ result' = result
    \/ /\ sent' = sent
       /\ pc' = "failed"
       /\ result' = Thrown(TokenRouterErrorMsg("TokenRouterError"))

\* a caller invokes request(method, path, data, params) with retryCount = 0
RequestStart ==
    /\ pc = "idle"
    /\ retryCount' = 0
    /\ IssueRequest
    /\ UNCHANGED <<optMaxRetries, maxRetries, answers, lastAnswer, waits>>
    /\ UNCHANGED <<sseVars, respVars, clientVars, streamVars>>

\* the awaited client.request settles: return response.data, or run the catch clause
ResponseArrives ==
    /\ pc = "inflight"
    /\ \E answer \in Answers :
         /\ answers' = Append(answers, IF answer.kind = "response" THEN answer.status ELSE 0)
         /\ lastAnswer' = answer
         /\ IF answer.kind = "response" /\ IsOk(answer.status)
            THEN /\ pc' = "returned"
                 /\ result' = Returned(answer.data)
                 /\ waits' = waits
            ELSE LET error == InterceptError(answer)
                 IN  IF ShouldRetry(error, retryCount)
                     THEN /\ pc' = "backoff"
                          /\ result' = result
                          /\ waits' = Append(waits, Backoff(retryCount))
                     ELSE /\ pc' = "failed"
                          /\ result' = Thrown(error)
                          /\ waits' = waits
    /\ UNCHANGED <<optMaxRetries, maxRetries, retryCount, sent>>
    /\ UNCHANGED <<sseVars, respVars, clientVars, streamVars>>

\* the backoff timer fires: return this.request(..., retryCount + 1, ...)
BackoffElapsed ==
    /\ pc = "backoff"
    /\ retryCount' = retryCount + 1
    /\ IssueRequest
    /\ UNCHANGED <<optMaxRetries, maxRetries, answers, lastAnswer, waits>>
    /\ UNCHANGED <<sseVars, respVars, clientVars, streamVars>>

\* ------------------------------------------------------------------ claims: request executor

IsServerError(status) == status >= 500

\* the latest attempt got a non-2xx response
LastIsErrorResponse == lastAnswer.kind = "response" /\ ~IsOk(lastAnswer.status)

\* the error kind section 4.1 gives a status and extracted message
TaxonomyKind(status, message) ==
    CASE status = 401 -> "AuthenticationError"
      [] status = 400 -> "InvalidRequestError"
      [] status = 429 -> "RateLimitError"
      [] status = 403 ->
           IF message.t = "str" /\ Includes(ToLowerCase(message.s), Quota)
           THEN "QuotaExceededError"
           ELSE "AuthenticationError"
      [] OTHER -> "APIStatusError"

\* C1: whenever request() has failed on a response with status 401, 400, 429,
\* 403 or >= 500, whatever the body, the error is of the kind the taxonomy
\* gives that status and message, and its statusCode and response are the
\* response's status and body.
C1_ErrorKindByStatus ==
    (/\ pc = "failed"
     /\ LastIsErrorResponse
     /\ lastAnswer.status \in {400, 401, 403, 429} \/ IsServerError(lastAnswer.status))
    => /\ result.error.kind = TaxonomyKind(lastAnswer.status, ExtractMessage(lastAnswer))
       /\ result.error.statusCode = <<lastAnswer.status>>
       /\ result.error.response = <<lastAnswer.data>>

\* C2: for k < maxRetries, after k attempts answered with a status >= 500 the
\* call has not failed with that status error (attempt k+1 is on its way), and
\* when attempt k+1 is answered with a 2xx the call has returned that
\* response's body after exactly k+1 HTTP requests.
C2_RetryThenSuccess ==
    \A k \in 0..(maxRetries - 1) :
        /\ (/\ Len(answers) = k
            /\ \A i \in 1..k : IsServerError(answers[i]))
           => ~(pc = "failed" /\ result.error.kind = "APIStatusError")
        /\ (/\ Len(answers) = k + 1
            /\ \A i \in 1..k : IsServerError(answers[i])
            /\ IsOk(answers[k + 1]))
           => /\ pc = "returned"
              /\ result = Returned(lastAnswer.data)
              /\ sent = k + 1

\* two 5xx answers, then a 2xx: returned after three requests
C2_Witness ==
    /\ pc = "returned"
    /\ Len(answers) = 3
    /\ IsServerError(answers[1]) /\ IsServerError(answers[2])
    /\ sent = 3

\* the maxRetries the options ask for: the value supplied, 3 when none is
ConfiguredMaxRetries == IF optMaxRetries = <<>> THEN DefaultMaxRetries ELSE optMaxRetries[1]

\* the call ended because a request could not be constructed, before any I/O
SetupFailed ==
    /\ pc = "failed"
    /\ result.error.kind = "TokenRouterError"
    /\ result.error.statusCode = <<>>

\* C3: with n the configured maxRetries, a call issues at most n+1 HTTP
\* requests; when it has ended on an answer and every answer had a status
\* >= 500 it has issued exactly n+1 and failed with the APIStatusError of the
\* last attempt.
C3_AttemptBound ==
    /\ sent <= ConfiguredMaxRetries + 1
    /\ (/\ pc \in {"returned", "failed"}
        /\ ~SetupFailed
        /\ answers # <<>>
        /\ \A i \in 1..Len(answers) : IsServerError(answers[i]))
       => /\ sent = ConfiguredMaxRetries + 1
          /\ pc = "failed"
          /\ result.error.kind = "APIStatusError"
          /\ result.error.statusCode = <<answers[Len(answers)]>>

\* the latest attempt failed with something other than a status error >= 500
LastIsFinalFailure ==
    /\ answers # <<>>
    /\ ~IsOk(answers[Len(answers)])
    /\ ~IsServerError(answers[Len(answers)])

\* C4: once an attempt has failed with anything but an APIStatusError with
\* status >= 500, the call has failed with that attempt's error, no request
\* follows it and no backoff wait was started for it; a 5xx followed by a 429
\* ends after two requests with RateLimitError.
C4_OnlyServerErrorsRetried ==
    /\ LastIsFinalFailure
       => /\ pc = "failed"
          /\ result = Thrown(InterceptError(lastAnswer))
          /\ result.error.kind # "APIStatusError"
          /\ sent = Len(answers)
          /\ Len(waits) = Len(answers) - 1
    /\ SetupFailed => Len(waits) = Len(answers)
    /\ (Len(answers) >= 2 /\ IsServerError(answers[1]) /\ answers[2] = 429)
       => /\ pc = "failed"
          /\ result.error.kind = "RateLimitError"
          /\ sent = 2

\* a 5xx, then a 429
C4_Witness ==
    /\ answers = <<500, 429>>
    /\ pc = "failed"
    /\ sent = 2

\* C5: when no response came back for a request, the call has failed with
\* APIConnectionError and no request follows; when that was the first
\* attempt the call issued exactly one request.
C5_ConnectionFailure ==
    (answers # <<>> /\ answers[Len(answers)] = 0)
    => /\ pc = "failed"
       /\ result.error.kind = "APIConnectionError"
       /\ sent = Len(answers)
       /\ (Len(answers) = 1 => sent = 1)

\* the first request got no response
C5_Witness ==
    /\ answers = <<0>>
    /\ pc = "failed"
    /\ result.error.kind = "APIConnectionError"

\* ------------------------------------------------------------------ JSON values

JNull == [k |-> "null", v |-> 0]
JNum(n) == [k |-> "num", v |-> n]
JStr(s) == [k |-> "str", v |-> s]
JArr(a) == [k |-> "arr", v |-> a]
JObj(o) == [k |-> "obj", v |-> o]
Undefined == [k |-> "undefined", v |-> 0]

\* obj.field (optional chaining on null and undefined is the caller's concern)
Get(obj, field) ==
    IF obj.k = "obj" /\ field \in DOMAIN obj.v THEN obj.v[field] ELSE Undefined

\* x === 'the string s'
IsStr(x, s) == x.k = "str" /\ x.v = s

\* JavaScript truthiness of a JSON value
JTruthy(x) ==
    CASE x.k = "null" -> FALSE
      [] x.k = "undefined" -> FALSE
      [] x.k = "num" -> x.v # 0
      [] x.k = "str" -> x.v # <<>>
      [] OTHER -> TRUE

Message == <<"m", "e", "s", "s", "a", "g", "e">>
OutputText == <<"o", "u", "t", "p", "u", "t", "_", "t", "e", "x", "t">>
ResponseCompleted ==
    <<"r", "e", "s", "p", "o", "n", "s", "e", ".", "c", "o", "m", "p", "l", "e", "t",
      "e", "d">>

RECURSIVE Digits(_)
\* String(n) for a natural number
Digits(n) == IF n < 10 THEN <<Digit(n)>> ELSE Digits(n \div 10) \o <<Digit(n % 10)>>

\* what texts.join('') makes of one pushed content.text (a string or a number)
TextOf(x) == IF x.k = "str" THEN x.v ELSE Digits(x.v)

\* the values a for...of loop visits, or a TypeError when x is not iterable
Iterate(x) ==
    CASE x.k = "arr" -> [ok |-> TRUE, items |-> x.v]
      [] x.k = "str" -> [ok |-> TRUE, items |-> [i \in 1..Len(x.v) |-> JStr(<<x.v[i]>>)]]
      [] OTHER -> [ok |-> FALSE, items |-> <<>>]

Threw == [ok |-> FALSE, text |-> <<>>]

RECURSIVE ContentTextsAnyBlock(_)
\* mutant: the block's type is not tested, every block with a text contributes
ContentTextsAnyBlock(blocks) ==
    IF blocks = <<>> THEN [ok |-> TRUE, text |-> <<>>]
    ELSE LET content == Head(blocks)
             rest == ContentTextsAnyBlock(Tail(blocks))
         IN  IF content.k \in {"null", "undefined"} THEN Threw
             ELSE IF ~rest.ok THEN Threw
             ELSE IF JTruthy(Get(content, "text"))
                  THEN [ok |-> TRUE, text |-> TextOf(Get(content, "text")) \o rest.text]
                  ELSE rest

RECURSIVE ContentTexts(_)
\* the inner loop of extractOutputText over item.content
ContentTexts(blocks) ==
    IF blocks = <<>> THEN [ok |-> TRUE, text |-> <<>>]
    ELSE LET content == Head(blocks)
             rest == ContentTexts(Tail(blocks))
         IN  IF content.k \in {"null", "undefined"} THEN Threw
             ELSE IF ~rest.ok THEN Threw
             ELSE IF IsStr(Get(content, "type"), OutputText) /\ JTruthy(Get(content, "text"))
                  THEN [ok |-> TRUE, text |-> TextOf(Get(content, "text")) \o rest.text]
                  ELSE rest

RECURSIVE ItemTexts(_)
\* the outer loop of extractOutputText over response.output
ItemTexts(items) ==
    IF items = <<>> THEN [ok |-> TRUE, text |-> <<>>]
    ELSE LET item == Head(items)
             rest == ItemTexts(Tail(items))
             here == IF IsStr(Get(item, "type"), Message) /\ JTruthy(Get(item, "content"))
                     THEN IF Iterate(Get(item, "content")).ok
                          THEN ContentTexts(Iterate(Get(item, "content")).items)
                          ELSE Threw
                     ELSE [ok |-> TRUE, text |-> <<>>]
         IN  IF item.k \in {"null", "undefined"} THEN Threw
             ELSE IF ~here.ok \/ ~rest.ok THEN Threw
             ELSE [ok |-> TRUE, text |-> here.text \o rest.text]

\* extractOutputText(response): the joined text, or ok = FALSE when it throws
extractOutputText(response) ==
    LET output == Get(response, "output")
    IN  IF ~JTruthy(output) THEN [ok |-> TRUE, text |-> <<>>]
        ELSE IF ~Iterate(output).ok THEN Threw
        ELSE ItemTexts(Iterate(output).items)

\* ------------------------------------------------------------------ response values

\* largest number of items in an output
MaxItems == 2

OutputAudio == <<"o", "u", "t", "p", "u", "t", "_", "a", "u", "d", "i", "o">>
Reasoning == <<"r", "e", "a", "s", "o", "n", "i", "n", "g">>

RECURSIVE SeqsUpTo(_, _)
\* every sequence over S of length at most n
SeqsUpTo(S, n) ==
    IF n = 0 THEN {<<>>}
    ELSE LET shorter == SeqsUpTo(S, n - 1)
         IN  shorter \cup {Append(q, x) : q \in {r \in shorter : Len(r) = n - 1}, x \in S}

\* OutputContent: { type: 'output_text' | 'output_audio', text?: string }
TextBlock(text) == JObj([type |-> JStr(OutputText), text |-> JStr(text)])
AudioBlock == JObj([type |-> JStr(OutputAudio), text |-> JStr(<<"z">>)])
BareBlock == JObj([type |-> JStr(OutputText)])

\* the content arrays tried: none to three blocks, text and audio mixed
Contents ==
    { <<>>,
      <<TextBlock(<<"a">>)>>, <<TextBlock(<<"b">>)>>, <<AudioBlock>>,
      <<TextBlock(<<"a">>), TextBlock(<<"b">>)>>,
      <<TextBlock(<<"a">>), AudioBlock>>,
      <<TextBlock(<<"b">>), AudioBlock, TextBlock(<<"a">>)>>,
      <<TextBlock(<<>>)>>,
      <<BareBlock, TextBlock(<<"b">>)>> }

\* OutputItem: { type: 'message' | 'tool_call' | 'reasoning', content?: OutputContent[] }
MessageItem(content) == JObj([type |-> JStr(Message), content |-> JArr(content)])
ReasoningItem == JObj([type |-> JStr(Reasoning), content |-> JArr(<<TextBlock(<<"a">>)>>)])
Items ==
    {MessageItem(content) : content \in Contents}
      \cup {JObj([type |-> JStr(Message)]), ReasoningItem}

\* Response: { id, output, output_text?, ... }
ResponseOf(output) == JObj([id |-> JStr(<<"r">>), output |-> JArr(output)])

\* a body that carries no output, and one that already carries an output_text
NoOutputResponse == JObj([id |-> JStr(<<"r">>)])
StaleTextResponse ==
    JObj([id |-> JStr(<<"r">>), output |-> JArr(<<MessageItem(<<TextBlock(<<"a">>)>>)>>),
          output_text |-> JStr(<<"z">>)])

\* a body whose output holds a null item
NullItemResponse == ResponseOf(<<JNull>>)

\* the bodies of the shape of the Response type a 2xx answer can carry
ServedBodies ==
    {ResponseOf(output) : output \in SeqsUpTo(Items, MaxItems)}
      \cup {NoOutputResponse, StaleTextResponse}

\* mutant: the assignment keeps only the derived field
WithOutputTextOnly(response, text) == JObj([output_text |-> JStr(text)])

\* mutant: the assignment is missing
WithOutputTextMissing(response, text) == response

\* response.output_text = text
WithOutputText(response, text) ==
    JObj([g \in DOMAIN response.v \cup {"output_text"} |->
            IF g = "output_text" THEN JStr(text) ELSE response.v[g]])

\* ------------------------------------------------------------------ JSON.parse

JsonSpace == {" ", "\t", "\r", "\n"}

RECURSIVE StripRight(_, _)
StripRight(s, ws) ==
    IF s # <<>> /\ s[Len(s)] \in ws THEN StripRight(SubSeq(s, 1, Len(s) - 1), ws) ELSE s

Strip(s, ws) == StripRight(StripLeft(s, ws), ws)

IsNumberText(s) ==
    /\ s # <<>>
    /\ \A i \in 1..Len(s) : s[i] \in DigitChars
    /\ (Len(s) > 1 => s[1] # "0")

IsStringText(s) ==
    /\ Len(s) >= 2
    /\ s[1] = "\"" /\ s[Len(s)] = "\""
    /\ \A i \in 2..(Len(s) - 1) : s[i] \notin {"\"", "\\", "\n", "\r", "\t"}

\* The text of a JSON object holds no newline and none of the prefixes; a body
\* carries it as one unit, named by the text itself.
\* A response.completed event whose response.output holds a null item:
CompletedNullItemText ==
    <<"{\"type\":\"response.completed\",\"response\":{\"output\":[null]}}">>

CompletedNullItem ==
    JObj([type |-> JStr(ResponseCompleted),
          response |-> JObj([output |-> JArr(<<JNull>>)])])

\* A response.completed event whose response has two text blocks in one message:
CompletedTwoTextsText ==
    <<"{\"type\":\"response.completed\",\"response\":{\"id\":\"r\",\"output\":[{\"type\":\"message\",\"content\":[{\"type\":\"output_text\",\"text\":\"a\"},{\"type\":\"output_text\",\"text\":\"b\"}]}]}}">>

CompletedTwoTexts ==
    JObj([type |-> JStr(ResponseCompleted),
          response |-> ResponseOf(<<MessageItem(<<TextBlock(<<"a">>), TextBlock(<<"b">>)>>)>>)])

ObjectTexts == {CompletedNullItemText, CompletedTwoTextsText}

ObjectValue(s) == IF s = CompletedNullItemText THEN CompletedNullItem ELSE CompletedTwoTexts

ParseFailed == [ok |-> FALSE, value |-> Undefined]

\* JSON.parse(text) on the payloads the stream catalogue can carry: unsigned
\* integers, plain strings and the catalogued objects; everything else that the
\* catalogue can put after "data: " is not JSON
JSONParse(text) ==
    LET t == Strip(text, JsonSpace)
    IN  IF IsNumberText(t) THEN [ok |-> TRUE, value |-> JNum(NumberValue(t))]
        ELSE IF IsStringText(t) THEN [ok |-> TRUE, value |-> JStr(SubSeq(t, 2, Len(t) - 1))]
        ELSE IF t \in ObjectTexts THEN [ok |-> TRUE, value |-> ObjectValue(t)]
        ELSE ParseFailed

\* ------------------------------------------------------------------ the response body

\* largest number of lines the server writes on one body
MaxLines == 2

\* UTF-8: the two bytes of U+00E9, the character they encode, and U+FFFD
ByteC3 == "C3"
ByteA9 == "A9"
EAcute == "U+00E9"
Replacement == "U+FFFD"

DataPrefix == <<"d", "a", "t", "a", ":", " ">>
EventPrefix == <<"e", "v", "e", "n", "t", ":", " ">>
Done == <<"[", "D", "O", "N", "E", "]">>
\* another field of the event-stream format, as long as the data prefix
RetryField == <<"r", "e", "t", "r", "y", ":">>

\* the lines a server can write, as bytes and without their newline
Catalogue ==
    << DataPrefix \o <<"1">>,
       DataPrefix \o <<"\"", ByteC3, ByteA9, "\"">>,
       DataPrefix \o <<"{", "x", "}">>,
       DataPrefix \o Done,
       EventPrefix \o <<"x">>,
       <<>>,
       DataPrefix \o CompletedNullItemText,
       DataPrefix \o CompletedTwoTextsText,
       RetryField \o <<" ", "3">> >>

LineIds == 1..Len(Catalogue)

\* sentinel lines of a server that ends its lines with CRLF, or pads them
NearSentinels ==
    << DataPrefix \o Done \o <<"\r">>,
       DataPrefix \o Done \o <<" ">> >>

NearSentinelIds == (Len(Catalogue) + 1)..(Len(Catalogue) + Len(NearSentinels))

LineText(id) ==
    IF id \in LineIds THEN Catalogue[id] ELSE NearSentinels[id - Len(Catalogue)]

\* the bytes of a body: each line followed by its newline
BodyBytes(ids) == Flatten([i \in 1..Len(ids) |-> LineText(ids[i]) \o <<"\n">>])

\* ------------------------------------------------------------------ TextDecoder

Consumed == ""

\* decoder.decode(bytes, { stream: true }) with `held` the bytes kept from the
\* previous call: the decoded text and the bytes kept for the next call.
\* A lead byte waits for its continuation byte, across calls if need be; a
\* lead byte followed by anything else, and a stray continuation byte, decode
\* to U+FFFD.
Utf8Decode(held, bytes) ==
    LET all == held \o bytes
        n == Len(all)
        marks == [i \in 1..n |->
                    CASE all[i] = ByteC3 ->
                           IF i = n THEN Consumed
                           ELSE IF all[i + 1] = ByteA9 THEN EAcute ELSE Replacement
                      [] all[i] = ByteA9 ->
                           IF i > 1 /\ all[i - 1] = ByteC3 THEN Consumed ELSE Replacement
                      [] OTHER -> all[i]]
    IN  [text |-> SelectSeq(marks, LAMBDA c : c # Consumed),
         held |-> IF n > 0 /\ all[n] = ByteC3 THEN <<ByteC3>> ELSE <<>>]

\* ------------------------------------------------------------------ line handling

\* text.split('\n')
Split(text) ==
    LET breaks == {i \in 1..Len(text) : text[i] = "\n"}
        m == Cardinality(breaks)
        Break(k) == CHOOSE i \in breaks : Cardinality({j \in breaks : j < i}) = k - 1
    IN  [k \in 1..(m + 1) |->
           SubSeq(text,
                  IF k = 1 THEN 1 ELSE Break(k - 1) + 1,
                  IF k = m + 1 THEN Len(text) ELSE Break(k) - 1)]

\* mutant: the incomplete last fragment is thrown away instead of kept
RetainedNothing(lines) == <<>>

\* const lines = buffer.split('\n'); buffer = lines.pop() || '': the fragment kept
Retained(lines) == lines[Len(lines)]

\* mutant: the fragment is kept in the buffer and also left in `lines`
CompleteWithFragment(lines) == lines

\* ... and the complete lines left in `lines`
Complete(lines) == SubSeq(lines, 1, Len(lines) - 1)

\* String.prototype.trim
TrimSpace == {" ", "\t", "\r", "\n"}
Trim(s) == Strip(s, TrimSpace)

Sites == {"parseSSEStream", "streamChatCompletion", "streamCreate", "streamCompletions"}

\* mutant: no call site has the try/finally
HasFinallyNowhere(where) == FALSE

\* only parseSSEStream wraps its loop in try { ... } finally { reader.releaseLock() }
HasFinally(where) == where = "parseSSEStream"

\* the completed-event branch of parseSSEStream: the event with output_text set
\* on its response, or ok = FALSE when that throws
Normalize(event) ==
    LET response == Get(event, "response")
        derived == extractOutputText(response)
    IN  IF ~(IsStr(Get(event, "type"), ResponseCompleted) /\ JTruthy(response))
        THEN [ok |-> TRUE, event |-> event]
        ELSE IF ~derived.ok \/ response.k # "obj"
        THEN [ok |-> FALSE, event |-> event]
        ELSE [ok |-> TRUE,
              event |-> JObj([f \in DOMAIN event.v |->
                  IF f = "response" THEN WithOutputText(response, derived.text)
                  ELSE event.v[f]])]

Skip == [kind |-> "skip", event |-> Undefined]

\* mutant: the sentinel test is missing, "[DONE]" goes to JSON.parse like any payload
HandleLineNoSentinel(where, line) ==
    IF where = "parseSSEStream" /\ Trim(line) = <<>> THEN Skip
    ELSE IF where = "parseSSEStream" /\ StartsWith(line, EventPrefix) THEN Skip
    ELSE IF StartsWith(line, DataPrefix)
    THEN LET data == SubSeq(line, Len(DataPrefix) + 1, Len(line))
             parsed == JSONParse(data)
             event == IF where = "parseSSEStream"
                      THEN Normalize(parsed.value)
                      ELSE [ok |-> TRUE, event |-> parsed.value]
         IN  IF parsed.ok /\ event.ok THEN [kind |-> "yield", event |-> event.event]
             ELSE Skip
    ELSE Skip

\* mutant: the payload is trimmed before it is compared with the sentinel
HandleLineTrimmedSentinel(where, line) ==
    IF where = "parseSSEStream" /\ Trim(line) = <<>> THEN Skip
    ELSE IF where = "parseSSEStream" /\ StartsWith(line, EventPrefix) THEN Skip
    ELSE IF StartsWith(line, DataPrefix)
    THEN LET data == SubSeq(line, Len(DataPrefix) + 1, Len(line))
             parsed == JSONParse(data)
             event == IF where = "parseSSEStream"
                      THEN Normalize(parsed.value)
                      ELSE [ok |-> TRUE, event |-> parsed.value]
         IN  IF Trim(data) = Done THEN [kind |-> "return", event |-> Undefined]
             ELSE IF parsed.ok /\ event.ok THEN [kind |-> "yield", event |-> event.event]
             ELSE Skip
    ELSE Skip

\* mutant: the startsWith('data: ') test is missing, every line that is not
\* skipped is cut at 6 and parsed
HandleLineAnyPrefix(where, line) ==
    IF where = "parseSSEStream" /\ Trim(line) = <<>> THEN Skip
    ELSE IF where = "parseSSEStream" /\ StartsWith(line, EventPrefix) THEN Skip
    ELSE LET data == SubSeq(line, Len(DataPrefix) + 1, Len(line))
             parsed == JSONParse(data)
             event == IF where = "parseSSEStream"
                      THEN Normalize(parsed.value)
                      ELSE [ok |-> TRUE, event |-> parsed.value]
         IN  IF data = Done THEN [kind |-> "return", event |-> Undefined]
             ELSE IF parsed.ok /\ event.ok THEN [kind |-> "yield", event |-> event.event]
             ELSE Skip

\* the body of `for (const line of lines)` for one line: skip it, yield an
\* event, or return from the generator
HandleLine(where, line) ==
    IF where = "parseSSEStream" /\ Trim(line) = <<>> THEN Skip
    ELSE IF where = "parseSSEStream" /\ StartsWith(line, EventPrefix) THEN Skip
    ELSE IF StartsWith(line, DataPrefix)
    THEN LET data == SubSeq(line, Len(DataPrefix) + 1, Len(line))
             parsed == JSONParse(data)
             event == IF where = "parseSSEStream"
                      THEN Normalize(parsed.value)
                      ELSE [ok |-> TRUE, event |-> parsed.value]
         IN  IF data = Done THEN [kind |-> "return", event |-> Undefined]
             ELSE IF parsed.ok /\ event.ok THEN [kind |-> "yield", event |-> event.event]
             ELSE Skip
    ELSE Skip

RECURSIVE RunLinesNewestFirst(_, _)
\* mutant: the for loop visits the lines of a chunk from the last to the first
RunLinesNewestFirst(where, lines) ==
    IF lines = <<>> THEN [kind |-> "more", event |-> Undefined, rest |-> <<>>]
    ELSE LET front == SubSeq(lines, 1, Len(lines) - 1)
             h == HandleLine(where, lines[Len(lines)])
         IN  IF h.kind = "skip" THEN RunLinesNewestFirst(where, front)
             ELSE [kind |-> h.kind, event |-> h.event, rest |-> front]

RECURSIVE RunLines(_, _)
\* run the for loop from its current position until it yields, returns or
\* falls off the end: what happened and the lines still to visit
RunLines(where, lines) ==
    IF lines = <<>> THEN [kind |-> "more", event |-> Undefined, rest |-> <<>>]
    ELSE LET h == HandleLine(where, Head(lines))
         IN  IF h.kind = "skip" THEN RunLines(where, Tail(lines))
             ELSE [kind |-> h.kind, event |-> h.event, rest |-> Tail(lines)]

\* ------------------------------------------------------------------ the stream generators

NoError == [kind |-> "none", statusCode |-> <<>>]
ErrorOf(kind) == [kind |-> kind, statusCode |-> <<>>]
\* mutant: the streaming call sites classify the status as handleResponseError does
StatusErrorByTaxonomy(status) ==
    [kind |-> TaxonomyKind(status, Absent), statusCode |-> <<status>>]

\* throw new APIStatusError(error, response.status)
StatusErrorOf(status) == [kind |-> "APIStatusError", statusCode |-> <<status>>]

\* statuses for which response.ok is false
NotOkStatuses == Statuses \ {200}

\* mutant: a body that closes is reported to the consumer as a failure
AtEndOfStreamRaises == ErrorOf("APIConnectionError")

\* if (done) break; the generator then runs off its end: nothing is raised
AtEndOfStream == NoError

\* mutant: at the end of the body the text left in the buffer is handled as a
\* last line before the generator finishes
FinishFlushing(path, error) ==
    LET last == HandleLine(site, buffer)
    IN  /\ gen' = IF error = NoError THEN "done" ELSE "failed"
        /\ exitPath' = path
        /\ raised' = error
        /\ releases' = IF HasFinally(site) /\ readerHeld THEN releases + 1 ELSE releases
        /\ readerHeld' = IF HasFinally(site) THEN FALSE ELSE readerHeld
        /\ buffer' = <<>>
        /\ decoder' = <<>>
        /\ pending' = <<>>
        /\ yielded' = IF path = "end-of-stream" /\ last.kind = "yield"
                      THEN Append(yielded, last.event) ELSE yielded
        /\ UNCHANGED readsAfterRelease

\* mutant: the loop goes round again where it should leave (`continue` for
\* `break`, `return` and the rethrow), so the generator keeps awaiting reads
FinishNever(path, error) ==
    /\ gen' = "reading"
    /\ UNCHANGED <<exitPath, raised, releases, readerHeld, buffer, decoder, pending,
                   yielded, readsAfterRelease>>

\* the generator finishes: the finally clause, where there is one, releases the
\* reader; the generator's locals are gone
Finish(path, error) ==
    /\ gen' = IF error = NoError THEN "done" ELSE "failed"
    /\ exitPath' = path
    /\ raised' = error
    /\ releases' = IF HasFinally(site) /\ readerHeld THEN releases + 1 ELSE releases
    /\ readerHeld' = IF HasFinally(site) THEN FALSE ELSE readerHeld
    /\ buffer' = <<>>
    /\ decoder' = <<>>
    /\ pending' = <<>>
    /\ UNCHANGED <<yielded, readsAfterRelease>>

\* the for loop runs on from `lines`; when it falls off the end the while loop
\* comes round to the next reader.read()
RunLoop(lines, newBuffer, newDecoder) ==
    \E r \in {RunLines(site, lines)} :
        CASE r.kind = "yield" ->
               /\ gen' = "suspended"
               /\ yielded' = Append(yielded, r.event)
               /\ pending' = r.rest
               /\ buffer' = newBuffer
               /\ decoder' = newDecoder
               /\ UNCHANGED <<readerHeld, releases, readsAfterRelease, exitPath, raised>>
          [] r.kind = "return" -> Finish("sentinel", NoError)
          [] OTHER ->
               /\ gen' = "reading"
               /\ pending' = <<>>
               /\ buffer' = newBuffer
               /\ decoder' = newDecoder
               /\ readsAfterRelease' =
                      IF readerHeld THEN readsAfterRelease ELSE readsAfterRelease + 1
               /\ UNCHANGED <<yielded, readerHeld, releases, exitPath, raised>>

\* mutant: next() on a finished generator runs its body again from the top
ResumeFinishedRestarts ==
    /\ gen' = "fetching"
    /\ fetches' = fetches + 1
    /\ UNCHANGED <<buffer, decoder, pending, yielded, readerHeld, releases,
                   readsAfterRelease, exitPath, raised>>

\* next() on a generator that has returned or thrown: its body is over and does
\* not run again, the call resolves with { done: true }
ResumeFinished ==
    UNCHANGED <<gen, fetches, buffer, decoder, pending, yielded, readerHeld, releases,
                readsAfterRelease, exitPath, raised>>

\* the consumer calls next(): the first call starts the generator, which sends
\* the request and awaits fetch; a later call resumes it after its yield; a call
\* after the generator has finished finds it finished
ConsumerPull ==
    /\ gen \in {"created", "suspended", "done", "failed"}
    /\ CASE gen = "created" ->
              /\ gen' = "fetching"
              /\ fetches' = fetches + 1
              /\ UNCHANGED <<buffer, decoder, pending, yielded, readerHeld, releases,
                             readsAfterRelease, exitPath, raised, pulledAfterEnd>>
         [] gen = "suspended" ->
              /\ RunLoop(pending, buffer, decoder)
              /\ UNCHANGED <<fetches, pulledAfterEnd>>
         [] OTHER ->
              /\ ResumeFinished
              /\ pulledAfterEnd' = TRUE
    /\ UNCHANGED <<site, stream, pos, handed, responseStatus>>
    /\ UNCHANGED <<reqVars, respVars, clientVars, streamVars>>

\* mutant: a 5xx answer to the streaming request is retried as request() does,
\* up to this.maxRetries times
OpenThrowsOrRetries(error) ==
    IF error.statusCode # <<>> /\ error.statusCode[1] >= 500 /\ fetches <= maxRetries
    THEN /\ gen' = "fetching"
         /\ fetches' = fetches + 1
         /\ UNCHANGED <<exitPath, raised>>
    ELSE /\ gen' = "failed"
         /\ exitPath' = "error"
         /\ raised' = error
         /\ fetches' = fetches

\* the generator throws before it has a reader: the error goes to the consumer
\* and nothing more is sent
OpenThrows(error) ==
    /\ gen' = "failed"
    /\ exitPath' = "error"
    /\ raised' = error
    /\ fetches' = fetches

\* the awaited fetch settles; on an ok response with a body the reader is taken
\* and the first read is issued
FetchSettles ==
    /\ gen = "fetching"
    /\ \/ /\ gen' = "reading"
          /\ readerHeld' = TRUE
          /\ responseStatus' = 200
          /\ UNCHANGED <<buffer, decoder, pending, yielded, releases,
                         readsAfterRelease, exitPath, raised, fetches>>
       \/ \E status \in NotOkStatuses :
            /\ OpenThrows(StatusErrorOf(status))
            /\ responseStatus' = status
            /\ UNCHANGED <<buffer, decoder, pending, yielded, readerHeld, releases,
                           readsAfterRelease>>
       \/ \E error \in {ErrorOf("TypeError"), ErrorOf("TokenRouterError")} :
            \* fetch itself rejects; or response.body is null
            /\ OpenThrows(error)
            /\ responseStatus' = IF error = ErrorOf("TypeError") THEN 0 ELSE 200
            /\ UNCHANGED <<buffer, decoder, pending, yielded, readerHeld, releases,
                           readsAfterRelease>>
    /\ UNCHANGED <<site, stream, pos, pulledAfterEnd, handed>>
    /\ UNCHANGED <<reqVars, respVars, clientVars, streamVars>>

\* The awaited reader.read() settles. The server writes a body of at most
\* MaxLines lines and may close it anywhere; a read hands out the next bytes,
\* up to any byte of any line (`more` are the lines the chunk is the first to
\* reach), or reports done when the server has closed the body, or fails.
\* The server writes lines of `ids`.
ReadFrom(ids) ==
    /\ gen = "reading"
    /\ \/ \E more \in SeqsUpTo(ids, MaxLines - Len(stream)) :
            LET body == BodyBytes(stream \o more)
                first == IF more = <<>> THEN pos + 1
                         ELSE Len(body) - Len(LineText(more[Len(more)]))
            IN  \E end \in first..Len(body) :
                  /\ stream' = stream \o more
                  /\ pos' = end
                  /\ \E decoded \in {Utf8Decode(decoder, SubSeq(body, pos + 1, end))} :
                     \E lines \in {Split(buffer \o decoded.text)} :
                       /\ handed' = handed \o Complete(lines)
                       /\ RunLoop(Complete(lines), Retained(lines), decoded.held)
       \/ /\ UNCHANGED <<stream, pos, handed>>
          /\ Finish("end-of-stream", AtEndOfStream)
       \/ /\ UNCHANGED <<stream, pos, handed>>
          /\ Finish("error", ErrorOf("TypeError"))
    /\ UNCHANGED <<site, fetches, pulledAfterEnd, responseStatus>>
    /\ UNCHANGED <<reqVars, respVars, clientVars, streamVars>>

\* a read settles on a body of any lines of the catalogue
ReadSettles == ReadFrom(LineIds)

\* a read settles on a body made of event lines, unparsable data lines and
\* sentinel lines
ReadSettlesPlain == ReadFrom({1, 3, 4})

\* a read settles on a body made of event lines, sentinel lines and lines that
\* differ from the sentinel line by one trailing character
ReadSettlesNear == ReadFrom({1, 4} \cup NearSentinelIds)

\* the consumer leaves its for-await loop early: generator.return()
ConsumerReturn ==
    /\ gen \in {"created", "suspended"}
    /\ IF gen = "created"
       THEN /\ gen' = "done"
            /\ exitPath' = "consumer"
            /\ UNCHANGED <<buffer, decoder, pending, yielded, readerHeld, releases,
                           readsAfterRelease, raised>>
       ELSE Finish("consumer", NoError)
    /\ UNCHANGED <<site, stream, pos, fetches, pulledAfterEnd, handed, responseStatus>>
    /\ UNCHANGED <<reqVars, respVars, clientVars, streamVars>>

\* ------------------------------------------------------------------ responses namespace

\* what a streaming call returns: the async generator, not yet started
Generator == [kind |-> "generator", data |-> Undefined]

\* if (response) { response.output_text = this.extractOutputText(response); }
\* return response;
AddOutputText(response) ==
    LET derived == extractOutputText(response)
    IN  IF ~JTruthy(response) THEN Returned(response)
        ELSE IF ~derived.ok \/ response.k # "obj" THEN Thrown(ErrorOf("TypeError"))
        ELSE Returned(WithOutputText(response, derived.text))

\* mutant: the streaming branch sends its request before the method returns
StartCallEager(streaming) ==
    IF streaming
    THEN /\ gen' = "fetching"
         /\ fetches' = fetches + 1
         /\ site' = "parseSSEStream"
         /\ outcome' = Generator
         /\ UNCHANGED <<stream, pos, buffer, decoder, pending, yielded, readerHeld,
                        releases, readsAfterRelease, exitPath, raised,
                        pulledAfterEnd, handed, responseStatus>>
    ELSE /\ outcome' = outcome
         /\ UNCHANGED sseVars

\* the start of a responses method: with params.stream the generator is
\* returned at once, otherwise this.request(...) is awaited
StartCall(streaming) ==
    IF streaming
    THEN /\ gen' = "created"
         /\ site' = "parseSSEStream"
         /\ outcome' = Generator
         /\ UNCHANGED <<stream, pos, buffer, decoder, pending, yielded, readerHeld,
                        releases, readsAfterRelease, exitPath, raised, fetches,
                        pulledAfterEnd, handed, responseStatus>>
    ELSE /\ outcome' = outcome
         /\ UNCHANGED sseVars

\* responses.create(params)
ResponsesCreate ==
    /\ call = "none"
    /\ call' = "create"
    /\ \E streaming \in BOOLEAN : StartCall(streaming)
    /\ UNCHANGED served
    /\ UNCHANGED <<reqVars, clientVars, streamVars>>

\* responses.get(responseId, params)
ResponsesGet ==
    /\ call = "none"
    /\ call' = "get"
    /\ \E streaming \in BOOLEAN : StartCall(streaming)
    /\ UNCHANGED served
    /\ UNCHANGED <<reqVars, clientVars, streamVars>>

\* responses.cancel(responseId)
ResponsesCancel ==
    /\ call = "none"
    /\ call' = "cancel"
    /\ StartCall(FALSE)
    /\ UNCHANGED served
    /\ UNCHANGED <<reqVars, clientVars, streamVars>>

\* this.request(...) resolved with `body`: attach output_text and return
ResolvedWith(body) ==
    /\ served' = body
    /\ outcome' = AddOutputText(body)

\* the awaited this.request(...) settles: it rejects, or it resolves with the
\* body of a 2xx answer (a response, a response with a null output item, or
\* null) and the method attaches output_text and returns
ResponsesRequestSettles ==
    /\ call # "none"
    /\ outcome.kind = "none"
    /\ \/ \E body \in ServedBodies : ResolvedWith(body)
       \/ ResolvedWith(NullItemResponse)
       \/ ResolvedWith(JNull)
       \/ \E error \in {StatusErrorOf(500), ErrorOf("APIConnectionError")} :
            /\ served' = served
            /\ outcome' = Thrown(error)
    /\ UNCHANGED call
    /\ UNCHANGED <<reqVars, sseVars, clientVars, streamVars>>

\* ------------------------------------------------------------------ request headers

HeaderNames ==
    {"Authorization", "Content-Type", "User-Agent", "Accept", "X-TR-Provider-Keys",
     "X-Trace"}

\* a header map: every header name with its value, <<>> when the map has no
\* such header
NoHeaders == [name \in HeaderNames |-> <<>>]
With(headers, name, value) == [headers EXCEPT ![name] = value]

\* { ...a, ...b }: the entries of b win
Merge(a, b) == [name \in HeaderNames |-> IF b[name] # <<>> THEN b[name] ELSE a[name]]

\* `Bearer ${this.apiKey}`
Bearer(key) == <<"Bearer", key>>

\* the constructor's headers, given to axios.create
InstanceHeaders(key, options) ==
    Merge(With(With(With(NoHeaders, "Authorization", Bearer(key)),
                    "Content-Type", <<"application/json">>),
               "User-Agent", <<"tokenrouter-node">>),
          options)

\* this.client.defaults.headers.common
CommonHeaders == With(NoHeaders, "Accept", <<"application/json, text/plain, */*">>)

\* headers: extraHeaders ? { ...this.client.defaults.headers.common, ...extraHeaders }
\*                        : undefined        (extra is <<>> when not passed)
RequestHeaders(extra) == IF extra = <<>> THEN NoHeaders ELSE Merge(CommonHeaders, extra[1])

\* what this.client.request({ ..., headers }) puts on the wire: the instance's
\* headers with the request's own on top
AxiosHeaders(requestHeaders) ==
    Merge(Merge(CommonHeaders, InstanceHeaders(apiKey, optHeaders)), requestHeaders)

\* mutant: the streaming call sites forget the Authorization header
StreamHeadersNoAuth(key) ==
    With(With(NoHeaders, "Content-Type", <<"application/json">>),
         "Accept", <<"text/event-stream">>)

\* the headers a streaming call site builds for fetch
StreamHeaders(key) ==
    With(With(With(NoHeaders, "Authorization", Bearer(key)),
              "Content-Type", <<"application/json">>),
         "Accept", <<"text/event-stream">>)

\* ------------------------------------------------------------------ native create and the key cache

\* most calls one client serves at a time
MaxCalls == 2

Stored == <<"s", "t", "o", "r", "e", "d">>

\* request.key_mode: absent (<<>>), or one of the documented modes
KeyModes ==
    {<<>>, <<"i", "n", "l", "i", "n", "e">>, <<"m", "i", "x", "e", "d">>,
     <<"a", "u", "t", "o">>, Stored,
     <<"S", "T", "O", "R", "E", "D">>}

Url(entry) ==
    CASE entry = "create" -> "/route"
      [] entry = "chat.completions.create" -> "/v1/chat/completions"
      [] OTHER -> "/v1/completions"

KeyUrl == "/.well-known/tr-public-key"

\* options.baseUrl || process.env.TOKENROUTER_BASE_URL || 'https://api.tokenrouter.io'
DefaultBaseUrl == "https://api.tokenrouter.io"

\* const payload = { ...request, model: request.model || 'auto' }
Payload(rec) == [stream |-> rec.stream, key_mode |-> rec.keyMode]

\* the method, path, data and params of a request: of the call's own request,
\* of the key fetch, and before any request
CreateArgs(rec) ==
    [method |-> "POST", path |-> Url(rec.entry), data |-> <<Payload(rec)>>, params |-> <<>>]
KeyArgs == [method |-> "GET", path |-> KeyUrl, data |-> <<>>, params |-> <<>>]
NoArgs == [method |-> "", path |-> "", data |-> <<>>, params |-> <<>>]

\* crypto.publicEncrypt accepts the key
Encrypts(pem) == pem # "garbled"

\* what comes back for GET /.well-known/tr-public-key: a body whose
\* public_key_pem is a usable key or a text that is no key, a 2xx body without
\* public_key_pem, or a failure
KeyAnswers ==
    [kind : {"key"}, pem : {"pemA", "garbled"}]
      \cup {[kind |-> "nokey", pem |-> ""], [kind |-> "failed", pem |-> ""]}

\* mutant: this.trPublicKeyPem is assigned before the `if (!pem)` test
CacheAssignedFirst(cache, answer) ==
    CASE answer.kind = "key" -> <<answer.pem>>
      [] answer.kind = "nokey" -> <<>>
      [] OTHER -> cache

\* fetchPublicKey(): this.trPublicKeyPem once the awaited GET has settled
CacheAfterFetch(cache, answer) ==
    IF answer.kind = "key" THEN <<answer.pem>> ELSE cache

\* buildSecureHeaders(keyMode) with `cache` the value of this.trPublicKeyPem:
\* the headers it returns, or the error it throws
buildSecureHeaders(keyMode, cache) ==
    LET mode == ToLowerCase(IF keyMode = <<>> THEN <<"a", "u", "t", "o">> ELSE keyMode)
    IN  IF mode = Stored THEN [ok |-> TRUE, headers |-> NoHeaders, error |-> "none"]
        ELSE IF envProviderKeys = {}
        THEN [ok |-> TRUE, headers |-> NoHeaders, error |-> "none"]
        ELSE IF cache = <<>>
        THEN [ok |-> FALSE, headers |-> NoHeaders, error |-> "APIConnectionError"]
        ELSE IF ~Encrypts(cache[1])
        THEN [ok |-> FALSE, headers |-> NoHeaders, error |-> "Error"]
        ELSE [ok |-> TRUE, error |-> "none",
              headers |-> With(NoHeaders, "X-TR-Provider-Keys", <<"sealed", cache[1]>>)]

\* a call not yet made
NewCall(entry, streaming, keyMode) ==
    [entry |-> entry, stream |-> streaming, keyMode |-> keyMode, pc |-> "new",
     attempt |-> 0, args |-> NoArgs, extraHeaders |-> <<>>, keyFetches |-> 0,
     startedWithKey |-> FALSE,
     absorbed |-> {}, outcome |-> "none"]

\* a request goes out
Send(c, args, attempt, headers) ==
    wire' = wire \cup {[call |-> c, base |-> baseUrl, method |-> args.method,
                        url |-> args.path, data |-> args.data, params |-> args.params,
                        attempt |-> attempt, headers |-> headers]}

\* this.request('POST', path, payload, undefined, 0, extraHeaders): first attempt
SendRequest(c, rec, extra) ==
    /\ calls' = [calls EXCEPT ![c] = [rec EXCEPT !.pc = "inflight",
                                                !.args = CreateArgs(rec),
                                                !.extraHeaders = extra]]
    /\ Send(c, CreateArgs(rec), 0, AxiosHeaders(RequestHeaders(extra)))

\* create() after its key fetch, with `cache` the value of this.trPublicKeyPem:
\* hand out the generator, or build the secure headers (which may throw) and
\* call request()
AfterKey(c, rec, cache) ==
    LET built == buildSecureHeaders(rec.keyMode, cache)
    IN  IF rec.stream
        THEN /\ calls' = [calls EXCEPT ![c] = [rec EXCEPT !.pc = "generator",
                                                         !.outcome = "generator"]]
             /\ wire' = wire
        ELSE IF built.ok
        THEN SendRequest(c, rec, <<built.headers>>)
        ELSE /\ calls' = [calls EXCEPT ![c] = [rec EXCEPT !.pc = "done",
                                                         !.outcome = built.error]]
             /\ wire' = wire

\* streamCreate() from its try block on, with `fetched` telling whether
\* fetchPublicKey returned: the secure headers are added unless something threw
\* (catch (_) {}), then the request is sent with fetch
StreamSend(c, rec, cache, fetched) ==
    LET built == buildSecureHeaders(rec.keyMode, cache)
        base == StreamHeaders(apiKey)
        headers == IF fetched /\ built.ok THEN Merge(base, built.headers) ELSE base
        swallowed == IF ~fetched THEN {"key-fetch"}
                     ELSE IF ~built.ok THEN {"secure-headers"} ELSE {}
    IN  /\ calls' = [calls EXCEPT ![c] = [rec EXCEPT !.pc = "streamFetch",
                                                    !.absorbed = @ \cup swallowed]]
        /\ Send(c, CreateArgs(rec), 0, headers)

\* client.create(request): with no cached key the key is fetched first
NativeCreate(c) ==
    /\ calls[c].pc = "new"
    /\ calls[c].entry = "create"
    /\ IF trPublicKeyPem = <<>>
       THEN /\ calls' = [calls EXCEPT ![c].pc = "keyFetch", ![c].keyFetches = @ + 1]
            /\ Send(c, KeyArgs, 0, AxiosHeaders(NoHeaders))
       ELSE AfterKey(c, [calls[c] EXCEPT !.startedWithKey = TRUE], trPublicKeyPem)
    /\ UNCHANGED <<apiKey, baseUrl, optHeaders, envProviderKeys, trPublicKeyPem, keyLog>>
    /\ UNCHANGED <<reqVars, sseVars, respVars, streamVars>>

\* client.chat.completions.create(request), client.completions.create(request)
CompatCreate(c) ==
    /\ calls[c].pc = "new"
    /\ calls[c].entry # "create"
    /\ IF calls[c].stream
       THEN /\ calls' = [calls EXCEPT ![c].pc = "generator", ![c].outcome = "generator"]
            /\ wire' = wire
       ELSE SendRequest(c, calls[c], <<>>)
    /\ UNCHANGED <<apiKey, baseUrl, optHeaders, envProviderKeys, trPublicKeyPem, keyLog>>
    /\ UNCHANGED <<reqVars, sseVars, respVars, streamVars>>

\* the GET of fetchPublicKey settles, in create() (whose catch (_) {} drops a
\* failure) or in streamCreate() (whose try block it sits in)
KeyFetchSettles(c) ==
    /\ calls[c].pc \in {"keyFetch", "streamKeyFetch"}
    /\ \E answer \in KeyAnswers :
         LET fetched == [ok |-> answer.kind = "key"]
             cache == CacheAfterFetch(trPublicKeyPem, answer)
         IN  /\ trPublicKeyPem' = cache
             /\ keyLog' = IF fetched.ok THEN Append(keyLog, answer.pem) ELSE keyLog
             /\ IF calls[c].pc = "keyFetch"
                THEN AfterKey(c, [calls[c] EXCEPT !.absorbed =
                                     IF fetched.ok THEN @ ELSE @ \cup {"key-fetch"}],
                              cache)
                ELSE StreamSend(c, calls[c], cache, fetched.ok)
    /\ UNCHANGED <<apiKey, baseUrl, optHeaders, envProviderKeys>>
    /\ UNCHANGED <<reqVars, sseVars, respVars, streamVars>>

\* the consumer's first next() on the generator a streaming call returned
StreamPull(c) ==
    /\ calls[c].pc = "generator"
    /\ IF calls[c].entry # "create"
       THEN /\ calls' = [calls EXCEPT ![c].pc = "streamFetch"]
            /\ Send(c, CreateArgs(calls[c]), 0, StreamHeaders(apiKey))
       ELSE IF trPublicKeyPem = <<>>
       THEN /\ calls' = [calls EXCEPT ![c].pc = "streamKeyFetch", ![c].keyFetches = @ + 1]
            /\ Send(c, KeyArgs, 0, AxiosHeaders(NoHeaders))
       ELSE StreamSend(c, calls[c], trPublicKeyPem, TRUE)
    /\ UNCHANGED <<apiKey, baseUrl, optHeaders, envProviderKeys, trPublicKeyPem, keyLog>>
    /\ UNCHANGED <<reqVars, sseVars, respVars, streamVars>>

\* the awaited fetch of a streaming call settles: the body is decoded from
\* here on, or the generator throws
StreamFetchSettles(c) ==
    /\ calls[c].pc = "streamFetch"
    /\ \/ calls' = [calls EXCEPT ![c].pc = "streaming"]
       \/ \E error \in {"APIStatusError", "TypeError"} :
            calls' = [calls EXCEPT ![c].pc = "done", ![c].outcome = error]
    /\ UNCHANGED <<apiKey, baseUrl, optHeaders, envProviderKeys, trPublicKeyPem, keyLog, wire>>
    /\ UNCHANGED <<reqVars, sseVars, respVars, streamVars>>

\* what an attempt is answered with: 200, 401 or 500 with the standard phrase
\* and an empty JSON body, or no response
CreateAnswers ==
    {[kind |-> "response", status |-> status, statusText |-> StatusPhrase(status),
      data |-> [json |-> TRUE, detail |-> Absent, error |-> Absent],
      retryAfter |-> Absent] : status \in {200, 401, 500}}
      \cup {NoResponse}

\* the answer to a request() attempt arrives: return, retry after the backoff,
\* or throw
AnswerArrives(c) ==
    /\ calls[c].pc = "inflight"
    /\ \E answer \in CreateAnswers :
         IF answer.kind = "response" /\ IsOk(answer.status)
         THEN calls' = [calls EXCEPT ![c].pc = "done", ![c].outcome = "returned"]
         ELSE LET error == InterceptError(answer)
              IN  IF ShouldRetry(error, calls[c].attempt)
                  THEN calls' = [calls EXCEPT ![c].pc = "backoff",
                                              ![c].absorbed = @ \cup {"retried-5xx"}]
                  ELSE calls' = [calls EXCEPT ![c].pc = "done", ![c].outcome = error.kind]
    /\ UNCHANGED <<apiKey, baseUrl, optHeaders, envProviderKeys, trPublicKeyPem, keyLog, wire>>
    /\ UNCHANGED <<reqVars, sseVars, respVars, streamVars>>

\* mutant: the recursive call leaves out its last argument
RetryFrameNoHeaders(rec) ==
    [rec EXCEPT !.pc = "inflight", !.attempt = @ + 1, !.extraHeaders = <<>>]

\* return this.request(method, path, data, params, retryCount + 1, extraHeaders):
\* the arguments of the recursive call
RetryFrame(rec) == [rec EXCEPT !.pc = "inflight", !.attempt = @ + 1]

\* the backoff timer fires and request() calls itself
RetrySent(c) ==
    /\ calls[c].pc = "backoff"
    /\ \E frame \in {RetryFrame(calls[c])} :
         /\ calls' = [calls EXCEPT ![c] = frame]
         /\ Send(c, frame.args, frame.attempt,
                 AxiosHeaders(RequestHeaders(frame.extraHeaders)))
    /\ UNCHANGED <<apiKey, baseUrl, optHeaders, envProviderKeys, trPublicKeyPem, keyLog>>
    /\ UNCHANGED <<reqVars, sseVars, respVars, streamVars>>

\* ------------------------------------------------------------------ concurrent streaming calls

\* mutant: buffer and decoder are fields of the client, shared by every loop
SharedLocals(c) == 1

\* `const decoder = new TextDecoder(); let buffer = ''` are locals of the
\* generator function: every invocation has its own
OwnLocals(c) == c

EmptyLocals == [buffer |-> <<>>, decoder |-> <<>>]

\* the generator of call c finishes; its locals are gone
StreamFinish(c, path, failed) ==
    /\ streams' = [streams EXCEPT ![c].gen = IF failed THEN "failed" ELSE "done",
                                  ![c].exit = path,
                                  ![c].pending = <<>>]
    /\ locals' = [locals EXCEPT ![OwnLocals(c)] = EmptyLocals]

\* the for loop of call c runs on from `lines` (see RunLoop)
StreamLoop(c, lines, newLocals, body, end) ==
    LET r == RunLines("parseSSEStream", lines)
        here == [streams[c] EXCEPT !.lines = body, !.pos = end]
    IN  CASE r.kind = "yield" ->
               /\ streams' = [streams EXCEPT ![c] =
                     [here EXCEPT !.gen = "suspended",
                                  !.yielded = Append(@, r.event),
                                  !.pending = r.rest]]
               /\ locals' = [locals EXCEPT ![OwnLocals(c)] = newLocals]
          [] r.kind = "return" ->
               /\ streams' = [streams EXCEPT ![c] =
                     [here EXCEPT !.gen = "done", !.exit = "sentinel", !.pending = <<>>]]
               /\ locals' = [locals EXCEPT ![OwnLocals(c)] = EmptyLocals]
          [] OTHER ->
               /\ streams' = [streams EXCEPT ![c] =
                     [here EXCEPT !.gen = "reading", !.pending = <<>>]]
               /\ locals' = [locals EXCEPT ![OwnLocals(c)] = newLocals]

\* the consumer of call c calls next(): the generator starts and sends its
\* request, or resumes after its yield
StreamNext(c) ==
    /\ streams[c].gen \in {"created", "suspended"}
    /\ IF streams[c].gen = "created"
       THEN /\ streams' = [streams EXCEPT ![c].gen = "fetching"]
            /\ locals' = locals
       ELSE StreamLoop(c, streams[c].pending, locals[OwnLocals(c)],
                       streams[c].lines, streams[c].pos)
    /\ UNCHANGED <<reqVars, sseVars, respVars, clientVars>>

\* the fetch of call c settles: the reader is taken and the first read issued,
\* or the generator throws
StreamOpens(c) ==
    /\ streams[c].gen = "fetching"
    /\ \/ /\ streams' = [streams EXCEPT ![c].gen = "reading"]
          /\ locals' = [locals EXCEPT ![OwnLocals(c)] = EmptyLocals]
       \/ /\ streams' = [streams EXCEPT ![c].gen = "failed", ![c].exit = "error"]
          /\ locals' = locals
    /\ UNCHANGED <<reqVars, sseVars, respVars, clientVars>>

\* a read of call c settles: the rest of a line begun, a whole new line, or
\* the first bytes of a new line arrive; or the body has ended; or the read fails
StreamRead(c) ==
    /\ streams[c].gen = "reading"
    /\ \/ \E more \in SeqsUpTo({1, 4}, 1) :   \* nothing, an event line, the sentinel
            LET body == streams[c].lines \o more
                bytes == BodyBytes(body)
                known == Len(BodyBytes(streams[c].lines))
                ends == IF more = <<>> THEN {known} ELSE {known + Len(DataPrefix) \div 2,
                                                         Len(bytes)}
            IN  /\ Len(body) <= MaxLines
                /\ \E end \in ends :
                     LET mine == locals[OwnLocals(c)]
                         decoded == Utf8Decode(mine.decoder,
                                               SubSeq(bytes, streams[c].pos + 1, end))
                         lines == Split(mine.buffer \o decoded.text)
                     IN  /\ end > streams[c].pos
                         /\ StreamLoop(c, Complete(lines),
                                       [buffer |-> Retained(lines),
                                        decoder |-> decoded.held],
                                       body, end)
       \/ StreamFinish(c, "end-of-stream", FALSE)
       \/ StreamFinish(c, "error", TRUE)
    /\ UNCHANGED <<reqVars, sseVars, respVars, clientVars>>

\* ------------------------------------------------------------------ claims: stream decoders

\* the text of the body bytes handed out so far, decoded in one piece
ReceivedText == Utf8Decode(<<>>, SubSeq(BodyBytes(stream), 1, pos)).text

\* its newline-terminated lines
ReceivedLines == Complete(Split(ReceivedText))

RECURSIVE Drain(_, _)
\* every event the for loop yields when it runs over `lines` without a break
Drain(where, lines) ==
    LET r == RunLines(where, lines)
    IN  IF r.kind = "yield" THEN <<r.event>> \o Drain(where, r.rest) ELSE <<>>

IsPrefix(p, q) == Len(p) <= Len(q) /\ SubSeq(q, 1, Len(p)) = p

Started == gen \notin {"created", "fetching", "unused"}

\* C6: however the received bytes were cut into chunks, the events delivered
\* are those the decoder yields when the same bytes arrive as one chunk: all
\* of them once every complete line has been handled (the generator awaits a
\* read, or has ended at end-of-stream or at the sentinel), the delivered ones
\* followed by those of the lines still to visit while it is suspended, and a
\* prefix of them after an early exit.
C6_FrameBoundaryInvariance ==
    LET whole == Drain(site, ReceivedLines)
    IN  /\ gen = "reading" => yielded = whole
        /\ gen = "suspended" => yielded \o Drain(site, pending) = whole
        /\ exitPath \in {"end-of-stream", "sentinel"} => yielded = whole
        /\ Started => IsPrefix(yielded, whole)

\* one event delivered, and the latest chunk ended between the two bytes of a
\* character of the next line
C6_Witness ==
    /\ gen = "reading"
    /\ decoder = <<ByteC3>>
    /\ Len(yielded) = 1
    /\ buffer # <<>>

SentinelLine == DataPrefix \o Done

\* the lines before the first sentinel line
RECURSIVE BeforeSentinel(_)
BeforeSentinel(lines) ==
    IF lines = <<>> \/ Head(lines) = SentinelLine THEN <<>>
    ELSE <<Head(lines)>> \o BeforeSentinel(Tail(lines))

HasSentinel(lines) == \E i \in 1..Len(lines) : lines[i] = SentinelLine

\* C7: once a complete line "data: [DONE]" has been handled the sequence has
\* ended: the generator is done, the events delivered are exactly those of the
\* lines before the sentinel, never one of a later line, and no read is
\* outstanding or issued (the generator awaits a read only while no sentinel
\* line has been received).
C7_SentinelEndsSequence ==
    /\ exitPath = "sentinel"
       => /\ gen = "done"
          /\ HasSentinel(ReceivedLines)
          /\ yielded = Drain(site, BeforeSentinel(ReceivedLines))
    /\ Started => IsPrefix(yielded, Drain(site, BeforeSentinel(ReceivedLines)))
    /\ gen = "reading" => ~HasSentinel(ReceivedLines)

\* one chunk carried the sentinel and, after it, an event: the sequence ended
\* and the event was not delivered
C7_Witness ==
    /\ exitPath = "sentinel"
    /\ stream = <<4, 2>>
    /\ pos = Len(BodyBytes(stream))
    /\ yielded = <<>>

RECURSIVE ValidDataEvents(_)
\* the parsed payloads of the data lines whose payload is valid JSON, in order
ValidDataEvents(lines) ==
    IF lines = <<>> THEN <<>>
    ELSE LET line == Head(lines)
             parsed == JSONParse(SubSeq(line, Len(DataPrefix) + 1, Len(line)))
         IN  (IF StartsWith(line, DataPrefix) /\ parsed.ok THEN <<parsed.value>> ELSE <<>>)
               \o ValidDataEvents(Tail(lines))

\* an event as parsed from its line, without the output_text the decoder may add
Parsed(event) ==
    IF event.k = "obj" /\ "response" \in DOMAIN event.v /\ event.v["response"].k = "obj"
    THEN JObj([f \in DOMAIN event.v |->
               IF f = "response"
               THEN JObj([g \in DOMAIN event.v[f].v \ {"output_text"} |-> event.v[f].v[g]])
               ELSE event.v[f]])
    ELSE event

\* C8: a data line whose payload is not valid JSON is dropped and nothing
\* else is: once every received line before the sentinel has been handled, the
\* events delivered are exactly the parsed payloads of the valid data lines
\* among them, in order.
C8_MalformedDropped ==
    (gen = "reading" \/ exitPath \in {"end-of-stream", "sentinel"})
    => [i \in 1..Len(yielded) |-> Parsed(yielded[i])]
         = ValidDataEvents(BeforeSentinel(ReceivedLines))

\* the reader was taken from the response body
Acquired == readerHeld \/ releases > 0

\* C9: in parseSSEStream the reader, once acquired, is released exactly once
\* on every exit path (end-of-stream, sentinel, failed read, consumer leaving
\* early), not before the generator ends, and no read is issued after the
\* release.
C9_ReaderReleasedOnce ==
    site = "parseSSEStream"
    => /\ releases <= 1
       /\ (gen \in {"reading", "suspended"} => readerHeld /\ releases = 0)
       /\ (gen \in {"done", "failed"} /\ Acquired) => (releases = 1 /\ ~readerHeld)
       /\ (exitPath \in {"end-of-stream", "sentinel"} => releases = 1)
       /\ (exitPath = "consumer" /\ yielded # <<>>) => releases = 1
       /\ readsAfterRelease = 0

\* the consumer left after the first of two events that arrived in one chunk
C9_Witness ==
    /\ site = "parseSSEStream"
    /\ exitPath = "consumer"
    /\ stream = <<1, 2>>
    /\ pos = Len(BodyBytes(stream))
    /\ Len(yielded) = 1
    /\ releases = 1

ChatSites == {"streamChatCompletion", "streamCreate", "streamCompletions"}

\* C10: in the chat client's streaming call sites the reader, once acquired,
\* has been released exactly once when the generator has ended, on every exit
\* path.
C10_ChatReaderReleasedOnce ==
    site \in ChatSites
    => /\ releases <= 1
       /\ (gen \in {"done", "failed"} /\ Acquired) => (releases = 1 /\ ~readerHeld)

RECURSIVE IsSubsequence(_, _)
\* p is q with some elements left out: same order, each element of q used once
IsSubsequence(p, q) ==
    IF p = <<>> THEN TRUE
    ELSE IF q = <<>> THEN FALSE
    ELSE IF Head(p).k = Head(q).k /\ Head(p) = Head(q)
         THEN IsSubsequence(Tail(p), Tail(q))
         ELSE IsSubsequence(p, Tail(q))

C12_EndOfStreamIsNormal ==
    (exitPath = "end-of-stream" /\ ~HasSentinel(ReceivedLines))
    => /\ gen = "done"
       /\ raised = NoError

\* the body closed after one event and an unterminated fragment, no sentinel
C12_Witness ==
    /\ exitPath = "end-of-stream"
    /\ stream = <<1, 2>>
    /\ pos = Len(BodyBytes(stream)) - 1
    /\ Len(yielded) = 1
    /\ gen = "done"

\* a read on the acquired reader was rejected
ReadFailed == exitPath = "error" /\ Acquired

\* C13: when a read on the underlying stream has failed, after any number of
\* delivered events, the consumer's iteration step has failed with
\* APIConnectionError, and the events delivered before are those of the lines
\* handled before the failure.
C13_ReadFailureIsConnectionError ==
    ReadFailed
    => /\ gen = "failed"
       /\ raised.kind = "APIConnectionError"
       /\ IsPrefix(yielded, Drain(site, ReceivedLines))

\* the call failed before a reader was acquired, without an HTTP status: the
\* request did not reach the server, or the response had no body to read
OpenFailed == exitPath = "error" /\ ~Acquired /\ raised.statusCode = <<>>

\* C14: in a streaming call, a request that never reaches the server and a
\* response whose body gives no reader both reach the consumer as
\* APIConnectionError.
C14_OpenFailureIsConnectionError ==
    OpenFailed
    => /\ gen = "failed"
       /\ raised.kind = "APIConnectionError"

\* ------------------------------------------------------------------ claims: response normalizer

\* a value of the shape of the Response type: an object whose output, when
\* there is one, is an array of objects whose content, when there is one, is
\* an array of objects whose text, when there is one, is a string
IsResponse(value) ==
    /\ value.k = "obj"
    /\ Get(value, "output").k \in {"undefined", "arr"}
    /\ Get(value, "output").k = "arr"
       => \A i \in 1..Len(Get(value, "output").v) :
            LET item == Get(value, "output").v[i]
            IN  /\ item.k = "obj"
                /\ Get(item, "content").k \in {"undefined", "arr"}
                /\ Get(item, "content").k = "arr"
                   => \A j \in 1..Len(Get(item, "content").v) :
                        LET block == Get(item, "content").v[j]
                        IN  /\ block.k = "obj"
                            /\ Get(block, "text").k \in {"undefined", "str"}

\* the concatenation, in output order then content order and with nothing in
\* between, of the text of every output_text block of every message item
DerivedText(response) ==
    LET output == Get(response, "output")
        items == IF output.k = "arr" THEN output.v ELSE <<>>
        messages == SelectSeq(items, LAMBDA item :
                        IsStr(Get(item, "type"), Message) /\ Get(item, "content").k = "arr")
        blocks == Flatten([i \in 1..Len(messages) |-> Get(messages[i], "content").v])
        texts == SelectSeq(blocks, LAMBDA block :
                        Get(block, "type").k = "str" /\ Get(block, "type").v = OutputText
                          /\ Get(block, "text").k = "str")
    IN  Flatten([i \in 1..Len(texts) |-> Get(texts[i], "text").v])

\* a non-streaming call has ended
CallEnded == outcome.kind \in {"returned", "thrown"}

\* C15: for every response body of the shape of the Response type, the
\* derived output_text is the concatenation, with no separator, of the texts of
\* the output_text blocks of the message items in output order then content
\* order; other items and other blocks add nothing, and an output without a
\* qualifying block, an empty output and a missing output give "".
C15_DerivedOutputText ==
    (CallEnded /\ IsResponse(served))
    => /\ outcome.kind = "returned"
       /\ IsStr(Get(outcome.data, "output_text"), DerivedText(served))

\* two message items, an audio block between the two text blocks: "ab"
C15_Witness ==
    /\ outcome.kind = "returned"
    /\ IsResponse(served)
    /\ served = ResponseOf(<<MessageItem(<<TextBlock(<<"a">>), AudioBlock>>),
                             MessageItem(<<TextBlock(<<"b">>)>>)>>)
    /\ IsStr(Get(outcome.data, "output_text"), <<"a", "b">>)

\* a delivered response.completed event that carries a response object
IsCompletedEvent(event) ==
    IsStr(Get(event, "type"), ResponseCompleted) /\ Get(event, "response").k = "obj"

\* C16: every response object returned by a non-streaming create, get or
\* cancel, and the response of every delivered response.completed event,
\* carries an output_text equal to the text derived from its own output.
C16_OutputTextAttached ==
    /\ (outcome.kind = "returned" /\ outcome.data.k = "obj")
       => IsStr(Get(outcome.data, "output_text"), DerivedText(outcome.data))
    /\ \A i \in 1..Len(yielded) :
         IsCompletedEvent(yielded[i])
         => IsStr(Get(Get(yielded[i], "response"), "output_text"),
                  DerivedText(Get(yielded[i], "response")))

\* a streaming get delivered a completed event whose response carries "ab"
C16_Witness ==
    /\ call = "get"
    /\ yielded # <<>>
    /\ IsCompletedEvent(yielded[Len(yielded)])
    /\ IsStr(Get(Get(yielded[Len(yielded)], "response"), "output_text"), <<"a", "b">>)

\* C17: normalizing a response changes nothing but output_text: the returned
\* object has the fields of the body plus output_text, every other field
\* (output included) as in the body, and normalizing it once more gives the
\* same object; a delivered completed event is the parsed payload of a
\* received line with output_text added, and normalizing it again changes nothing.
C17_NormalizationFrame ==
    /\ (outcome.kind = "returned" /\ outcome.data.k = "obj")
       => /\ DOMAIN outcome.data.v = DOMAIN served.v \cup {"output_text"}
          /\ \A f \in DOMAIN served.v \ {"output_text"} : outcome.data.v[f] = served.v[f]
          /\ AddOutputText(outcome.data) = outcome
    /\ \A i \in 1..Len(yielded) :
         IsCompletedEvent(yielded[i])
         => /\ Normalize(yielded[i]) = [ok |-> TRUE, event |-> yielded[i]]
            /\ \E j \in 1..Len(ReceivedLines) :
                 LET parsed == JSONParse(SubSeq(ReceivedLines[j], Len(DataPrefix) + 1,
                                                Len(ReceivedLines[j])))
                 IN  /\ StartsWith(ReceivedLines[j], DataPrefix)
                     /\ parsed.ok
                     /\ parsed.value.k = "obj"
                     /\ parsed.value = Parsed(yielded[i])

\* cancel returned a response with a message and a reasoning item: id and
\* output as served, output_text "b" added
C17_Witness ==
    /\ call = "cancel"
    /\ outcome.kind = "returned"
    /\ IsResponse(served)
    /\ served = ResponseOf(<<MessageItem(<<TextBlock(<<"b">>)>>), ReasoningItem>>)
    /\ outcome.data = WithOutputText(served, <<"b">>)

\* ------------------------------------------------------------------ claims: error taxonomy

\* C18: a non-2xx response whose status is none of 400, 401, 403, 429 and is
\* below 500 (404 here) makes the call fail with APIStatusError carrying that
\* status.
C18_OtherStatusIsAPIStatusError ==
    (/\ pc = "failed"
     /\ LastIsErrorResponse
     /\ lastAnswer.status \notin {400, 401, 403, 429}
     /\ lastAnswer.status < 500)
    => /\ result.error.kind = "APIStatusError"
       /\ result.error.statusCode = <<lastAnswer.status>>

\* C19: when the timeout elapsed before a response was received, the call has
\* failed with TimeoutError and no request follows the one that timed out.
C19_TimeoutIsTimeoutError ==
    lastAnswer.kind = "timeout"
    => /\ pc = "failed"
       /\ result.error.kind = "TimeoutError"
       /\ sent = Len(answers)

\* C20: the RateLimitError of a 429 carries as retryAfter the integer number
\* of seconds of the Retry-After header when the header gives one (0
\* included) and undefined when the header is absent; an error of any other
\* kind carries no retryAfter.
C20_RetryAfter ==
    /\ (pc = "failed" /\ LastIsErrorResponse /\ lastAnswer.status = 429)
       => /\ result.error.kind = "RateLimitError"
          /\ lastAnswer.retryAfter.t = "absent" => result.error.retryAfter = <<>>
          /\ (lastAnswer.retryAfter.t = "str" /\ IsNumberText(lastAnswer.retryAfter.s))
             => result.error.retryAfter = <<Num(NumberValue(lastAnswer.retryAfter.s))>>
    /\ (pc = "failed" /\ result.error.kind # "RateLimitError")
       => result.error.retryAfter = <<>>

\* a 500 was retried, then a 429 came with Retry-After: 0
C20_Witness ==
    /\ pc = "failed"
    /\ answers = <<500, 429>>
    /\ lastAnswer.retryAfter = StrVal(<<"0">>)
    /\ result.error.retryAfter = <<Num(0)>>

\* ------------------------------------------------------------------ claims: terminal states

\* the generator has returned (sentinel, end of stream, consumer) or thrown
Finished == gen \in {"done", "failed"}

\* C21: once the sequence has ended or has raised an error, nothing the
\* consumer or the network does changes it: every further pull finds the
\* generator finished as before, delivers no element, hands out no body byte
\* (no read), sends no request, and the generator never leaves that state.
C21_TerminalAbsorbing ==
    [][Finished =>
         /\ gen' = gen
         /\ exitPath' = exitPath
         /\ raised' = raised
         /\ yielded' = yielded
         /\ stream' = stream
         /\ pos' = pos
         /\ readsAfterRelease' = readsAfterRelease
         /\ fetches' = fetches]_vars

\* the sentinel came after one event, in one chunk with the line that follows
\* it, and the consumer pulled again after the end
C21_Witness ==
    /\ pulledAfterEnd
    /\ exitPath = "sentinel"
    /\ stream = <<1, 4>>
    /\ Len(yielded) = 1
    /\ fetches = 1

\* ------------------------------------------------------------------ claims: messages and backoff

\* request() has thrown an error that handleResponseError built from the latest
\* answer (it carries that answer's status)
BuiltFromResponse ==
    /\ pc = "failed"
    /\ result.kind = "thrown"
    /\ LastIsErrorResponse
    /\ result.error.statusCode = <<lastAnswer.status>>

\* a body field counts as present when it holds a non-empty value
Present(field) == Truthy(field)

RECURSIVE SumOf(_)
SumOf(seq) == IF seq = <<>> THEN 0 ELSE Head(seq) + SumOf(Tail(seq))

\* the call has ended on an answer and every attempt was answered with a 5xx
AllAttemptsServerError ==
    /\ pc \in {"returned", "failed"}
    /\ ~SetupFailed
    /\ answers # <<>>
    /\ \A i \in 1..Len(answers) : IsServerError(answers[i])

\* C28: the wait between attempt i and attempt i+1 (i from 0) is 2^i seconds,
\* whatever i is; attempt i+1 is issued only after that wait (while the wait
\* runs no more requests have gone out than waits have started); no wait
\* follows the last attempt; and when every attempt fails with a 5xx the waits
\* add up to 2^maxRetries - 1 seconds, maxRetries being the configured value.
C28_BackoffSchedule ==
    /\ \A i \in 1..Len(waits) : waits[i] = 2 ^ (i - 1)
    /\ sent <= Len(waits) + 1
    /\ pc = "backoff" => sent = Len(waits)
    /\ (pc \in {"returned", "failed"} /\ ~SetupFailed) => Len(waits) = sent - 1
    /\ AllAttemptsServerError => SumOf(waits) = 2 ^ ConfiguredMaxRetries - 1

\* ------------------------------------------------------------------ claims: errors always raised

\* C37: request() has returned only when its latest attempt was answered with
\* a 2xx, and then with that response's body; whenever the latest attempt was
\* answered with a non-2xx response, whatever its status and body, the call
\* has not returned, and if it has ended on that answer it has thrown the
\* error the interceptor raised for it, which carries the response's status
\* (or is the TypeError raised inside handleResponseError for a 403).
C37_ErrorResponseNeverReturns ==
    /\ (pc = "returned" \/ result.kind = "returned") =>
         /\ pc = "returned"
         /\ lastAnswer.kind = "response"
         /\ IsOk(lastAnswer.status)
         /\ result = Returned(lastAnswer.data)
    /\ LastIsErrorResponse => pc \in {"failed", "backoff", "inflight"}
    /\ (LastIsErrorResponse /\ pc = "failed" /\ ~SetupFailed) =>
         /\ result.kind = "thrown"
         /\ \/ result.error.statusCode = <<lastAnswer.status>>
            \/ lastAnswer.status = 403 /\ result.error.kind = "TypeError"

\* a 500 was retried and the second attempt was answered with a 404 whose
\* body is not JSON: the call threw the TokenRouterError of the 404
C37_Witness ==
    /\ answers = <<500, 404>>
    /\ ~lastAnswer.data.json
    /\ pc = "failed"
    /\ result.kind = "thrown"
    /\ result.error.kind = "TokenRouterError"
    /\ result.error.statusCode = <<404>>

\* ------------------------------------------------------------------ claims: line framing

\* the generator is between chunks or inside the for loop of the latest chunk
ChunkProcessed == gen \in {"reading", "suspended"}

\* the received text after its last newline (all of it when there is none)
AfterLastNewline == Retained(Split(ReceivedText))

\* C29: once a chunk has been taken in, the buffer holds no newline and is
\* exactly the received text that follows the last newline received, and the
\* lines given to line processing so far, chunk after chunk, are exactly the
\* newline-terminated lines of the received text, each once and in order: no
\* character is lost or handed over twice.
C29_BufferInvariant ==
    ChunkProcessed =>
      /\ \A i \in 1..Len(buffer) : buffer[i] # "\n"
      /\ buffer = AfterLastNewline
      /\ handed = ReceivedLines

\* a chunk ended inside the second line after the first line was completed by
\* an earlier or the same chunk
C29_Witness ==
    /\ gen = "reading"
    /\ stream = <<1, 3>>
    /\ handed = <<Catalogue[1]>>
    /\ buffer = <<"d", "a", "t">>

\* the received complete lines that begin with the data prefix
DataLines == SelectSeq(ReceivedLines, LAMBDA line : StartsWith(line, DataPrefix))

\* C30: what the decoder delivers and whether it ends are decided by the
\* complete lines that begin with "data: " alone: with every other complete
\* line (event, blank, other field) taken out of the received text the events
\* are the same, the sequence ends at the sentinel only if a data line is the
\* sentinel, and the buffer is the same (it never holds part of a complete line).
C30_OnlyDataLinesCount ==
    LET whole == Drain(site, DataLines)
    IN  /\ gen = "reading" => yielded = whole
        /\ gen = "suspended" =>
             yielded \o Drain(site, SelectSeq(pending,
                                   LAMBDA line : StartsWith(line, DataPrefix))) = whole
        /\ exitPath \in {"end-of-stream", "sentinel"} => yielded = whole
        /\ exitPath = "sentinel" => HasSentinel(DataLines)
        /\ (gen = "reading" /\ DataLines = <<>>) => yielded = <<>>
        /\ ChunkProcessed => buffer = AfterLastNewline

\* a retry field line and an event line were handled in full and nothing came
\* of them: the generator awaits the next read with nothing delivered
C30_Witness ==
    /\ gen = "reading"
    /\ stream = <<9, 5>>
    /\ handed = <<Catalogue[9], Catalogue[5]>>
    /\ yielded = <<>>
    /\ buffer = <<>>

\* ------------------------------------------------------------------ claims: create, keys and headers

Ids == DOMAIN calls

\* C22: the only failure a call absorbs instead of raising it to the caller is
\* a 5xx answer that is retried (the decoder's tolerance of unparsable SSE
\* payloads aside): a failed key fetch and a failure to build the
\* provider-key header are not among the absorbed ones.
C22_OnlyRetriesAbsorbed ==
    \A c \in Ids : calls[c].absorbed \subseteq {"retried-5xx"}

\* the latest key a successful fetch returned
LastFetched == IF keyLog = <<>> THEN <<>> ELSE <<keyLog[Len(keyLog)]>>

\* C23: however concurrent create() calls interleave, the cached key is unset
\* until a fetch succeeds and is from then on the key of the latest successful
\* fetch (a failed fetch or one without a key leaves it as it was), and a call
\* that found the cache set when it started has issued no key fetch.
C23_KeyCache ==
    /\ trPublicKeyPem = LastFetched
    /\ \A c \in Ids : calls[c].startedWithKey => calls[c].keyFetches = 0

\* two calls fetched the key concurrently and got different keys, the later
\* answer is the cached one; the second call's fetch in create() had failed
\* before its generator fetched again
C23_Witness ==
    /\ Len(calls) >= 2
    /\ calls[1].keyFetches = 1
    /\ calls[2].keyFetches = 2
    /\ "key-fetch" \in calls[2].absorbed
    /\ keyLog = <<"pemA", "garbled">>
    /\ trPublicKeyPem = <<"garbled">>

\* C25 as stated: every request sent, by request() on each attempt, by the
\* key fetch and by the streaming call sites, carries Authorization: Bearer
\* <apiKey> with the constructor's API key.
C25_BearerOnEveryRequest ==
    \A r \in wire : r.headers["Authorization"] = Bearer(apiKey)

\* C25 as amended: the same, for a client whose options.headers does not
\* itself set an Authorization header.
C25_BearerUnlessOverridden ==
    optHeaders["Authorization"] = <<>> =>
      \A r \in wire : r.headers["Authorization"] = Bearer(apiKey)

\* a non-streaming create() on a client with an additional header went through
\* its key fetch and all four attempts
C25_Witness ==
    /\ optHeaders["X-Trace"] # <<>>
    /\ apiKey = "sk-B"
    /\ calls[1].attempt = DefaultMaxRetries
    /\ Cardinality(wire) = DefaultMaxRetries + 2
    /\ \E r \in wire : r.url = KeyUrl

\* the call asked for provider keys to be sent inline
WantsInlineKeys(c) ==
    /\ calls[c].entry = "create"
    /\ calls[c].keyMode \in KeyModes \ {Stored, <<"S", "T", "O", "R", "E", "D">>}
    /\ envProviderKeys # {}

\* C26: every /route request of a create() call with key_mode inline, mixed,
\* auto or absent, made with a provider key in the environment, carries the
\* X-TR-Provider-Keys header, streaming or not; a /route request of a call
\* with key_mode 'stored' and every /v1/chat/completions and /v1/completions
\* request carries none.
C26_ProviderKeysHeader ==
    \A r \in wire :
      /\ (r.url = "/route" /\ WantsInlineKeys(r.call)) =>
           r.headers["X-TR-Provider-Keys"] # <<>>
      /\ (r.url = "/route" /\ calls[r.call].keyMode = Stored) =>
           r.headers["X-TR-Provider-Keys"] = <<>>
      /\ r.url \in {"/v1/chat/completions", "/v1/completions"} =>
           r.headers["X-TR-Provider-Keys"] = <<>>

\* the requests request() has sent for call c, one for each attempt
Attempts(c) == {r \in wire : r.call = c /\ r.url # KeyUrl /\ ~calls[c].stream}

\* C38: the attempts of one request() call differ in nothing but their
\* number: method, path, body, query parameters and headers (the extra
\* headers included) and the base URL are those of the first attempt; the
\* attempts are numbered 0, 1, 2, ... up to the call's current retryCount,
\* each sent once, the count growing by one in the step that follows a
\* backoff and in no other; and no step changes the client's API key, base
\* URL or maxRetries.
C38_RetriesResendSameRequest ==
    /\ [](\A c \in Ids :
            /\ \A r \in Attempts(c) :
                 /\ r.method = "POST"
                 /\ r.url = Url(calls[c].entry)
                 /\ r.data = <<Payload(calls[c])>>
                 /\ r.params = <<>>
                 /\ r.base = baseUrl
                 /\ \A q \in Attempts(c) : q.headers = r.headers
            /\ Attempts(c) # {} =>
                 /\ {r.attempt : r \in Attempts(c)} = 0..calls[c].attempt
                 /\ Cardinality(Attempts(c)) = calls[c].attempt + 1)
    /\ [][/\ apiKey' = apiKey
          /\ baseUrl' = baseUrl
          /\ maxRetries' = maxRetries
          /\ \A c \in Ids :
               \/ calls'[c].attempt = calls[c].attempt
               \/ calls[c].pc = "backoff" /\ calls'[c].attempt = calls[c].attempt + 1]_vars

\* a create() call with provider keys in its extra headers, on a client with
\* its own base URL, was answered with a 5xx three times: four attempts went
\* out, each with the sealed keys
C38_Witness ==
    /\ baseUrl # DefaultBaseUrl
    /\ calls[1].entry = "create"
    /\ calls[1].attempt = DefaultMaxRetries
    /\ Cardinality(Attempts(1)) = DefaultMaxRetries + 1
    /\ \A r \in Attempts(1) : r.headers["X-TR-Provider-Keys"] # <<>>

\* ------------------------------------------------------------------ claims: concurrent streams

\* the text call c has received, and its newline-terminated lines
ReceivedBy(c) == Utf8Decode(<<>>, SubSeq(BodyBytes(streams[c].lines), 1, streams[c].pos)).text
LinesOf(c) == Complete(Split(ReceivedBy(c)))

\* call c has delivered exactly the events of its own lines, and what it
\* keeps buffered is the unfinished end of its own text
OwnEventsOnly(c) ==
    LET mine == streams[c]
        whole == Drain("parseSSEStream", LinesOf(c))
    IN  /\ mine.gen = "reading" =>
             /\ mine.yielded = whole
             /\ locals[c].buffer = Retained(Split(ReceivedBy(c)))
             /\ ~HasSentinel(LinesOf(c))
        /\ mine.gen = "suspended" =>
             mine.yielded \o Drain("parseSSEStream", mine.pending) = whole
        /\ mine.exit \in {"end-of-stream", "sentinel"} => mine.yielded = whole
        /\ mine.exit = "sentinel" => HasSentinel(LinesOf(c))

\* a step in which call c ends leaves every other call as it was
EndsAlone(c) ==
    (streams[c].gen \notin {"done", "failed"} /\ streams'[c].gen \in {"done", "failed"}) =>
      \A d \in DOMAIN streams \ {c} : streams'[d] = streams[d] /\ locals'[d] = locals[d]

\* C24: with the decode loops of several streaming calls interleaved at their
\* reads in every order, each call delivers exactly the events of its own
\* byte stream and buffers only its own text, and a call that ends, at its
\* sentinel, at the end of its body or on a failure, ends alone.
C24_StreamsIndependent ==
    /\ [](\A c \in DOMAIN streams : OwnEventsOnly(c))
    /\ [][\A c \in DOMAIN streams : EndsAlone(c)]_vars

\* the first call has ended at its sentinel while the second, which holds the
\* first bytes of its next line, has delivered its own event and reads on
C24_Witness ==
    /\ Len(streams) >= 2
    /\ streams[1].exit = "sentinel"
    /\ streams[1].yielded = <<>>
    /\ streams[2].gen = "reading"
    /\ Len(streams[2].yielded) = 1
    /\ locals[2].buffer = <<"d", "a", "t">>

\* ------------------------------------------------------------------ claims: opening a stream

\* fetch resolved with a response whose status is not 2xx
OpenedNotOk == responseStatus # 0 /\ ~IsOk(responseStatus)

NeverStarted == gen = "created" \/ (exitPath = "consumer" /\ responseStatus = 0)

\* C33: whatever maxRetries the client was constructed with, a streaming call
\* that has started has sent exactly one HTTP request, at every point of its
\* life and after its end: in particular once the request was answered with a
\* 5xx, or a read has failed in mid-stream, the call has failed and still has
\* sent one request only.
C33_OneRequestPerStream ==
    /\ fetches = IF NeverStarted THEN 0 ELSE 1
    /\ (responseStatus >= 500 \/ ReadFailed) => (gen = "failed" /\ fetches = 1)

\* on a client with maxRetries 2 the streaming request was answered with a 502
\* and the consumer pulled again
C33_Witness ==
    /\ maxRetries = 2
    /\ responseStatus = 502
    /\ pulledAfterEnd
    /\ gen = "failed"
    /\ fetches = 1

\* ------------------------------------------------------------------ claims: lazy start

\* create or get was called with stream set and has returned
StreamingCallReturned == call \in {"create", "get"} /\ gen # "unused"

\* a step in which the consumer pulls the first element
FirstPull == gen = "created" /\ gen' = "fetching"

\* C34: create/get with stream set returns the generator and nothing else
\* happens: while the consumer has not pulled, no request was sent, no reader
\* acquired and no error raised, however long that lasts and also when the
\* consumer closes the generator unused; the method itself never throws; the
\* request goes out in the step of the first pull and in no other, and an
\* opening error is raised to the consumer only after that pull.
C34_LazyStart ==
    /\ [](StreamingCallReturned =>
            /\ outcome = Generator
            /\ NeverStarted => (fetches = 0 /\ ~Acquired /\ raised = NoError /\ pos = 0)
            /\ raised # NoError => fetches = 1)
    /\ [][/\ fetches' # fetches => FirstPull
          /\ FirstPull => fetches' = fetches + 1
          /\ call' # call => (fetches' = 0 /\ raised' = NoError)]_vars

\* responses.get with stream set returned its generator; the first pull sent
\* the request, which was answered with a 401, raised from that pull
C34_Witness ==
    /\ call = "get"
    /\ outcome = Generator
    /\ gen = "failed"
    /\ raised.statusCode = <<401>>
    /\ fetches = 1

\* ------------------------------------------------------------------ claims: unterminated text and near sentinels

\* a step in which a read reports the end of the body
EndOfStreamStep == gen = "reading" /\ exitPath' = "end-of-stream"

\* C35: when the body ends, the text held in the buffer, a last line without
\* its newline, is dropped unparsed, be it a valid data line or the sentinel:
\* the step that takes the end of the body delivers nothing and hands no line
\* to line processing, the sequence ends normally, and the events delivered
\* are those of the newline-terminated lines alone.
C35_UnterminatedTailDropped ==
    /\ [](exitPath = "end-of-stream" =>
            /\ gen = "done"
            /\ raised = NoError
            /\ handed = ReceivedLines
            /\ yielded = Drain(site, handed))
    /\ [][EndOfStreamStep =>
            /\ yielded' = yielded
            /\ handed' = handed
            /\ gen' = "done"
            /\ raised' = NoError]_vars

\* the body ended after an event line and a sentinel line that lacks its
\* newline: one event was delivered and the end is the end of the body
C35_Witness ==
    /\ exitPath = "end-of-stream"
    /\ stream = <<1, 4>>
    /\ pos = Len(BodyBytes(stream)) - 1
    /\ yielded = <<JNum(1)>>
    /\ gen = "done"

\* a data line whose payload is the sentinel followed by more
IsNearSentinel(line) ==
    /\ StartsWith(line, SentinelLine)
    /\ line # SentinelLine

\* C36: the sequence ends at the sentinel only when a received line is
\* exactly "data: [DONE]"; a data line whose payload is "[DONE]" followed by
\* a carriage return or a space is dropped like any unparsable payload,
\* neither ending the sequence nor delivering anything, and the events of the
\* lines after it are delivered.
C36_ExactSentinel ==
    LET others == SelectSeq(ReceivedLines, LAMBDA line : ~IsNearSentinel(line))
    IN  /\ exitPath = "sentinel" => HasSentinel(ReceivedLines)
        /\ gen = "reading" => (~HasSentinel(ReceivedLines) /\ yielded = Drain(site, others))
        /\ gen = "suspended" => IsPrefix(yielded, Drain(site, others))
        /\ exitPath \in {"sentinel", "end-of-stream"} => yielded = Drain(site, others)

\* "data: [DONE]" with a carriage return came first, then an event line: the
\* event was delivered and the generator reads on
C36_Witness ==
    /\ gen = "reading"
    /\ stream = <<Len(Catalogue) + 1, 1>>
    /\ pos = Len(BodyBytes(stream))
    /\ yielded = <<JNum(1)>>

\* ------------------------------------------------------------------ claims: termination

\* the sequence has ended at the sentinel or at the end of the body, or has
\* raised the error of the opening step or of a read
Terminated == Finished /\ exitPath \in {"sentinel", "end-of-stream", "error"}

\* C32: with a consumer that keeps pulling, a fetch and reads that always
\* settle, and a body of finitely many chunks, the sequence eventually ends,
\* at the sentinel, at the end of the body or with the error raised, and
\* whenever the generator awaits a read it eventually stops awaiting one for
\* good: it never stays in the reading state forever.
C32_DecoderTerminates ==
    /\ <>Terminated
    /\ (gen = "reading") ~> [](gen # "reading")

\* the body closed after an unparsable line and an event, pulled by the consumer
C32_Witness ==
    /\ site = "parseSSEStream"
    /\ exitPath = "end-of-stream"
    /\ stream = <<3, 1>>
    /\ Len(yielded) = 1
    /\ gen = "done"

\* ------------------------------------------------------------------ specifications

ReqOptions == {<<>>} \cup {<<n>> : n \in 0..MaxRetriesOpt}

ReqIdle ==
    /\ optMaxRetries = <<>>
    /\ maxRetries = DefaultMaxRetries
    /\ pc = "unused"
    /\ retryCount = 0
    /\ sent = 0
    /\ answers = <<>>
    /\ lastAnswer = NoResponse
    /\ waits = <<>>
    /\ result = NoResult

SseIdle ==
    /\ site = "none"
    /\ stream = <<>>
    /\ pos = 0
    /\ buffer = <<>>
    /\ decoder = <<>>
    /\ pending = <<>>
    /\ gen = "unused"
    /\ yielded = <<>>
    /\ readerHeld = FALSE
    /\ releases = 0
    /\ readsAfterRelease = 0
    /\ exitPath = "none"
    /\ raised = NoError
    /\ fetches = 0
    /\ pulledAfterEnd = FALSE
    /\ handed = <<>>
    /\ responseStatus = 0

RespIdle ==
    /\ call = "none"
    /\ served = Undefined
    /\ outcome = NoResult

ClientIdle ==
    /\ apiKey = "sk-A"
    /\ baseUrl = DefaultBaseUrl
    /\ optHeaders = NoHeaders
    /\ envProviderKeys = {}
    /\ trPublicKeyPem = <<>>
    /\ keyLog = <<>>
    /\ calls = <<>>
    /\ wire = {}
    /\ streams = <<>>
    /\ locals = <<>>

\* a client constructed with some options, before request() is called
InitReq ==
    /\ optMaxRetries \in ReqOptions
    /\ maxRetries = ConstructMaxRetries(optMaxRetries)
    /\ pc = "idle"
    /\ retryCount = 0
    /\ sent = 0
    /\ answers = <<>>
    /\ lastAnswer = NoResponse
    /\ waits = <<>>
    /\ result = NoResult
    /\ SseIdle
    /\ RespIdle
    /\ ClientIdle

NextReq == RequestStart \/ ResponseArrives \/ BackoffElapsed

SpecReq == InitReq /\ [][NextReq]_vars

\* the generator of one of the call sites, not yet started
StreamCreated(sites) ==
    /\ site \in sites
    /\ stream = <<>>
    /\ pos = 0
    /\ buffer = <<>>
    /\ decoder = <<>>
    /\ pending = <<>>
    /\ gen = "created"
    /\ yielded = <<>>
    /\ readerHeld = FALSE
    /\ releases = 0
    /\ readsAfterRelease = 0
    /\ exitPath = "none"
    /\ raised = NoError
    /\ fetches = 0
    /\ pulledAfterEnd = FALSE
    /\ handed = <<>>
    /\ responseStatus = 0

\* a streaming call has returned its generator; nothing has been sent yet
InitStream(sites) == StreamCreated(sites) /\ ReqIdle /\ RespIdle /\ ClientIdle

\* a client of the responses API, before any call
InitResponses == ReqIdle /\ SseIdle /\ RespIdle /\ ClientIdle

NextResponses ==
    \/ ResponsesCreate
    \/ ResponsesGet
    \/ ResponsesCancel
    \/ ResponsesRequestSettles
    \/ ConsumerPull
    \/ FetchSettles
    \/ ReadSettles
    \/ ConsumerReturn

\* non-streaming create/get/cancel, and streaming create/get over parseSSEStream
SpecResponses == InitResponses /\ [][NextResponses]_vars

NextSSE == ConsumerPull \/ FetchSettles \/ ReadSettles \/ ConsumerReturn

\* the two decoders: parseSSEStream and the chat client's streamChatCompletion
SpecSSE == InitStream({"parseSSEStream", "streamChatCompletion"}) /\ [][NextSSE]_vars

\* the consumer keeps pulling and never leaves early
NextPulling == ConsumerPull \/ FetchSettles \/ ReadSettlesPlain

\* parseSSEStream with a consumer that pulls until the end, over a transport
\* whose fetch and reads always settle
SpecSSELive ==
    /\ InitStream({"parseSSEStream"})
    /\ [][NextPulling]_vars
    /\ WF_vars(ConsumerPull)
    /\ WF_vars(FetchSettles)
    /\ WF_vars(ReadSettlesPlain)

\* a client constructed with some maxRetries has returned a generator
InitStreamOnce ==
    /\ StreamCreated({"parseSSEStream", "streamChatCompletion"})
    /\ optMaxRetries \in ReqOptions
    /\ maxRetries = ConstructMaxRetries(optMaxRetries)
    /\ pc = "unused"
    /\ retryCount = 0
    /\ sent = 0
    /\ answers = <<>>
    /\ lastAnswer = NoResponse
    /\ waits = <<>>
    /\ result = NoResult
    /\ RespIdle
    /\ ClientIdle

NextStreamOnce == ConsumerPull \/ FetchSettles \/ ReadSettlesNear \/ ConsumerReturn

\* one streaming call of the responses client or of the chat client, on a
\* client with any maxRetries
SpecStreamOnce == InitStreamOnce /\ [][NextStreamOnce]_vars

\* the three streaming call sites of the chat-completions client
SpecChat ==
    InitStream({"streamChatCompletion", "streamCreate", "streamCompletions"})
      /\ [][NextSSE]_vars

\* a chat client constructed with an API key and some options.headers, in an
\* environment with or without a provider key, about to serve one call
InitCreate ==
    /\ apiKey \in {"sk-A", "sk-B"}
    /\ baseUrl \in {DefaultBaseUrl, "https://proxy.example"}
    \* options.headers: none, an additional header, or an Authorization header
    \* of the caller's own
    /\ optHeaders \in {NoHeaders,
                       With(NoHeaders, "X-Trace", <<"t1">>),
                       With(NoHeaders, "Authorization", <<"Basic", "u">>)}
    /\ envProviderKeys \in {{}, {"openai"}}
    /\ trPublicKeyPem = <<>>
    /\ keyLog = <<>>
    /\ calls \in {<<NewCall("create", streaming, keyMode)>> :
                     streaming \in BOOLEAN, keyMode \in KeyModes}
                 \cup {<<NewCall(entry, streaming, <<>>)>> :
                          entry \in {"chat.completions.create", "completions.create"},
                          streaming \in BOOLEAN}
    /\ wire = {}
    /\ ReqIdle
    /\ SseIdle
    /\ RespIdle
    /\ streams = <<>>
    /\ locals = <<>>

NextCreate ==
    \E c \in DOMAIN calls :
      \/ NativeCreate(c)
      \/ CompatCreate(c)
      \/ KeyFetchSettles(c)
      \/ StreamPull(c)
      \/ StreamFetchSettles(c)
      \/ AnswerArrives(c)
      \/ RetrySent(c)

\* one call on the chat client, from any entry point, to its end
SpecCreate == InitCreate /\ [][NextCreate]_vars

\* native create() calls, streaming or not, made on one client in an
\* environment with a provider key; they run concurrently
InitCreateRace ==
    /\ apiKey = "sk-A"
    /\ baseUrl = DefaultBaseUrl
    /\ optHeaders = NoHeaders
    /\ envProviderKeys = {"openai"}
    /\ trPublicKeyPem = <<>>
    /\ keyLog = <<>>
    /\ calls \in [1..MaxCalls -> {NewCall("create", streaming, <<>>) : streaming \in BOOLEAN}]
    /\ wire = {}
    /\ optMaxRetries = <<1>>
    /\ maxRetries = ConstructMaxRetries(optMaxRetries)
    /\ pc = "unused"
    /\ retryCount = 0
    /\ sent = 0
    /\ answers = <<>>
    /\ lastAnswer = NoResponse
    /\ waits = <<>>
    /\ result = NoResult
    /\ SseIdle
    /\ RespIdle
    /\ streams = <<>>
    /\ locals = <<>>

SpecCreateRace == InitCreateRace /\ [][NextCreate]_vars

\* streaming calls made on one client have each returned their generator
InitStreams ==
    /\ streams = [c \in 1..MaxCalls |->
                    [lines |-> <<>>, pos |-> 0, gen |-> "created", pending |-> <<>>,
                     yielded |-> <<>>, exit |-> "none"]]
    /\ locals = [c \in 1..MaxCalls |-> EmptyLocals]
    /\ apiKey = "sk-A"
    /\ baseUrl = DefaultBaseUrl
    /\ optHeaders = NoHeaders
    /\ envProviderKeys = {}
    /\ trPublicKeyPem = <<>>
    /\ keyLog = <<>>
    /\ calls = <<>>
    /\ wire = {}
    /\ ReqIdle
    /\ SseIdle
    /\ RespIdle

NextStreams == \E c \in DOMAIN streams : StreamNext(c) \/ StreamOpens(c) \/ StreamRead(c)

\* the decode loops of concurrent streaming calls, interleaved at their awaits
SpecStreams == InitStreams /\ [][NextStreams]_vars

====
